---- MODULE Spec2Model ----
(***************************************************************************)
(* A model of webcrack's deobfuscation pipeline: the target registry, the  *)
(* entry point runDeobfuscation with its target resolution, and the run    *)
(* functions of the two built-in targets (obfuscator.io and Abba).         *)
(*                                                                         *)
(* Confidences and thresholds are numbers in the source; the model keeps   *)
(* them in tenths (0.3 is 3, 0.5 is 5, 1 is 10), which preserves every     *)
(* comparison the code makes.                                              *)
(***************************************************************************)
EXTENDS Integers, Sequences, FiniteSets, TLC

\* ---------------------------------------------------------------------------
\* Bounds of the model
\* ---------------------------------------------------------------------------

\* decoder functions findDecoders can return for one string array
MaxDecoders == 2

\* call sites of one kind (decoder calls, proxy calls) in an input tree
MaxCalls == 2

\* ---------------------------------------------------------------------------
\* Program constants
\* ---------------------------------------------------------------------------

\* `threshold = 0.3` in resolveTarget's destructuring default (tenths)
DefaultThreshold == 3

\* `confidence += 0.5` in obfuscatorIOTarget.detect (tenths)
StringArrayConfidence == 5

\* `Math.min(confidence, 1)` in obfuscatorIOTarget.detect (tenths)
MaxConfidence == 10

\* the constant part of `state.changes += 2 + decoders.length`
RemovalBase == 2

\* ---------------------------------------------------------------------------
\* Values
\* ---------------------------------------------------------------------------

\* defaultTargetId starts as null; ids are strings, the empty string included
Null == "<null>"

Ids == {"obfuscator.io", "abba", ""}

Min(a, b) == IF a < b THEN a ELSE b

\* A DeobfuscatorTarget object: meta.id, which run function it has (impl),
\* and what its detect member is: absent ("none"), a function that throws or
\* rejects ("throw"), a function returning a fixed confidence ("const"), or
\* obfuscator.io's detect, computed from the tree ("tree").
Target(id, impl, det, conf) == [id |-> id, impl |-> impl, det |-> det, conf |-> conf]

\* `undefined` where a target is expected
Undefined == Target("<undefined>", "none", "none", 0)

obfuscatorIOTarget == Target("obfuscator.io", "oio", "tree", 0)

abbaTarget == Target("abba", "abba", "const", 0)

\* Other implementations of the DeobfuscatorTarget interface that a caller
\* can register, some under the id of a built-in target (an overwrite).
CustomTargets ==
    { Target("abba", "custom", "throw", 0),
      Target("abba", "custom", "const", 5),
      Target("abba", "custom", "const", 7),
      Target("", "custom", "none", 0),
      Target("", "custom", "throw", 0),
      Target("", "custom", "const", 2),
      Target("", "custom", "const", 7) }

AllTargets == {obfuscatorIOTarget, abbaTarget} \cup CustomTargets

\* ---------------------------------------------------------------------------
\* Syntax trees
\* ---------------------------------------------------------------------------
\* A tree is described by what the probes and transforms of the two
\* pipelines find in it.
\*   obfuscator.io part:
\*     stringArray   findStringArray finds the string-array declaration
\*     rotator       findArrayRotator finds the rotator IIFE
\*     decoders      number of decoder declarations findDecoders returns
\*     objProps      mutations inlineObjectProps has left to make
\*     wrappers      mutations inlineDecoderWrappers has left to make
\*     decoderCalls  decoder calls the sandbox can evaluate
\*     cleanup       mutations the four cleanup transforms have left to make
\*   Abba part:
\*     arr           the string-array declarator: absent ("none"), an IIFE
\*                   with a string argument that evaluates to an array
\*                   ("iife") or does not ("opaque"), an array expression
\*                   with at least one element ("lit")
\*     rot           a rotator IIFE over that array is present
\*     proxy         a proxy function over that array is declared
\*     proxyCalls    in-range literal calls of the proxy that the traversal
\*                   reaches after the proxy declaration
\*     extras        literals carrying a formatter hint (`extra`), outside
\*                   the constructs above
\*     members       computed members obj["name"] with a valid, non-reserved
\*                   identifier as name
\*     loader        a module loader with a registry in scope is declared
\*     modules       loader calls with (string literal, function) arguments
Tree(sa, ro, de, op, wr, dc, cl, ar, rt, px, pc_, ex, me, lo, mo) ==
    [stringArray |-> sa, rotator |-> ro, decoders |-> de, objProps |-> op,
     wrappers |-> wr, decoderCalls |-> dc, cleanup |-> cl,
     arr |-> ar, rot |-> rt, proxy |-> px, proxyCalls |-> pc_, extras |-> ex,
     members |-> me, loader |-> lo, modules |-> mo]

\* a tree in which neither pipeline finds anything
EmptyTree ==
    Tree(FALSE, FALSE, 0, 0, 0, 0, 0, "none", FALSE, FALSE, 0, 0, 0, FALSE, 0)

\* trees with obfuscator.io constructs only
OioTrees ==
    { Tree(sa, ro, de, op, wr, dc, cl, "none", FALSE, FALSE, 0, 0, 0, FALSE, 0) :
        sa \in BOOLEAN, ro \in BOOLEAN, de \in 0..MaxDecoders, op \in 0..1,
        wr \in 0..1, dc \in 0..MaxCalls, cl \in 0..1 }

WellFormedOio(tr) ==
    /\ tr.rotator => tr.stringArray
    /\ tr.decoders > 0 => tr.stringArray
    /\ tr.wrappers > 0 => tr.decoders > 0
    /\ tr.decoderCalls > 0 => tr.decoders > 0

\* trees with Abba constructs only
AbbaTrees ==
    { Tree(FALSE, FALSE, 0, 0, 0, 0, 0, ar, rt, px, pc_, ex, me, lo, mo) :
        ar \in {"none", "iife", "opaque", "lit"}, rt \in BOOLEAN,
        px \in BOOLEAN, pc_ \in 0..MaxCalls, ex \in 0..1, me \in 0..1,
        lo \in BOOLEAN, mo \in 0..1 }

WellFormedAbba(tr) ==
    /\ tr.rot => tr.arr # "none"
    /\ tr.proxy => tr.arr # "none"
    /\ tr.proxyCalls > 0 => tr.proxy
    /\ tr.modules > 0 => tr.loader

\* ---------------------------------------------------------------------------
\* DeobfuscatorRegistry
\* ---------------------------------------------------------------------------
\* `targets` is a Map: the model keeps it as the sequence of its values in
\* insertion order, with pairwise distinct ids.

\* Map.has
Has(ts, id) == \E i \in 1..Len(ts) : ts[i].id = id

\* Map.get / DeobfuscatorRegistry.get
Get(ts, id) ==
    IF Has(ts, id) THEN ts[CHOOSE i \in 1..Len(ts) : ts[i].id = id]
    ELSE Undefined

\* DeobfuscatorRegistry.list
List(ts) == [i \in 1..Len(ts) |-> ts[i].id]

\* DeobfuscatorRegistry.register: Map.set keeps the position of an existing
\* key and appends a new one
RegisterOp(ts, t) ==
    IF Has(ts, t.id)
    THEN [i \in 1..Len(ts) |-> IF ts[i].id = t.id THEN t ELSE ts[i]]
    ELSE Append(ts, t)

UnregisterTest(id, t) == t.id # id

\* DeobfuscatorRegistry.unregister: Map.delete
UnregisterOp(ts, id) == SelectSeq(ts, LAMBDA t : UnregisterTest(id, t))

\* truthiness of the `string | null` field defaultTargetId
Truthy(d) == d # Null /\ d # ""

\* DeobfuscatorRegistry.getDefault
GetDefault(ts, d) == IF Truthy(d) THEN Get(ts, d) ELSE Undefined

\* DeobfuscatorRegistry.setDefault: [ok, defaultTargetId]
SetDefaultOp(ts, d, id) ==
    IF ~Has(ts, id) THEN [ok |-> FALSE, defaultTargetId |-> d]
    ELSE [ok |-> TRUE, defaultTargetId |-> id]

\* findStringArray (external probe): whether it finds the declaration
FindStringArray(tr) == tr.stringArray

\* obfuscatorIOTarget.detect: the confidence it returns
OioDetect(tr) ==
    Min(IF FindStringArray(tr) THEN StringArrayConfidence ELSE 0, MaxConfidence)

\* a detect of abbaTarget that reports the trees holding a string array of
\* Abba's
AbbaDetectImplemented(tr) == IF tr.arr # "none" THEN MaxConfidence ELSE 0

\* abbaTarget.detect: the confidence it returns
AbbaDetect(tr) == 0

\* target.detect(ast): [throws, confidence]
CallDetect(t, tr) ==
    CASE t.det = "throw" -> [throws |-> TRUE, confidence |-> 0]
      [] t.impl = "oio" -> [throws |-> FALSE, confidence |-> OioDetect(tr)]
      [] t.impl = "abba" -> [throws |-> FALSE, confidence |-> AbbaDetect(tr)]
      [] OTHER -> [throws |-> FALSE, confidence |-> t.conf]

\* Array.prototype.sort with the comparator b.confidence - a.confidence of
\* detect: a stable sort, so an entry goes behind every entry whose
\* confidence is at least its own
InsertByConfidence(sorted, e) ==
    LET before == {i \in 1..Len(sorted) : sorted[i].confidence >= e.confidence}
        k == Cardinality(before)
    IN  SubSeq(sorted, 1, k) \o <<e>> \o SubSeq(sorted, k + 1, Len(sorted))

\* the detection list left in push order (the sort omitted)
SortByConfidenceOmitted(rs) == rs

RECURSIVE SortByConfidence(_)
SortByConfidence(rs) ==
    IF rs = <<>> THEN <<>>
    ELSE InsertByConfidence(SortByConfidence(SubSeq(rs, 1, Len(rs) - 1)),
                            rs[Len(rs)])

\* the loop body without its try/catch: a throwing detect ends the loop
DetectStepNoCatch(acc, t, tr) ==
    IF acc.raised \/ t.det = "none" THEN acc
    ELSE LET r == CallDetect(t, tr)
             called == Append(acc.called, t.id)
         IN  IF r.throws
             THEN [acc EXCEPT !.called = called, !.raised = TRUE]
             ELSE IF r.confidence > 0
                  THEN [acc EXCEPT !.called = called,
                                   !.results = Append(@, [target |-> t,
                                                 confidence |-> r.confidence])]
                  ELSE [acc EXCEPT !.called = called]

\* One iteration of the loop of detect over targets.values(): acc holds the
\* results pushed so far, the ids whose detect was called, and whether an
\* error has escaped the loop.
DetectStep(acc, t, tr) ==
    IF acc.raised \/ t.det = "none" THEN acc
    ELSE LET r == CallDetect(t, tr)
             called == Append(acc.called, t.id)
         IN  IF r.throws
             THEN [acc EXCEPT !.called = called]
             ELSE IF r.confidence > 0
                  THEN [acc EXCEPT !.called = called,
                                   !.results = Append(@, [target |-> t,
                                                 confidence |-> r.confidence])]
                  ELSE [acc EXCEPT !.called = called]

RECURSIVE DetectLoop(_, _, _)
DetectLoop(ts, tr, n) ==
    IF n = 0 THEN [raised |-> FALSE, results |-> <<>>, called |-> <<>>]
    ELSE DetectStep(DetectLoop(ts, tr, n - 1), ts[n], tr)

\* DeobfuscatorRegistry.detect: [raised, results, called]
Detect(ts, tr) ==
    LET acc == DetectLoop(ts, tr, Len(ts))
    IN  [acc EXCEPT !.results = IF acc.raised THEN <<>>
                                ELSE SortByConfidence(acc.results)]

\* ---------------------------------------------------------------------------
\* DeobfuscatorContext and logging
\* ---------------------------------------------------------------------------
\* The context a target's run receives, extended with what the run leaves
\* behind: the onLog calls made (logs) and the transforms applied (applied).
\* A log entry is [level, msg, n]: n is the number the message reports.

LogEntry(level, msg, n) == [level |-> level, msg |-> msg, n |-> n]

\* context.log of runTarget
Log(ctx, msg, n) == [ctx EXCEPT !.logs = Append(@, LogEntry("info", msg, n))]

\* context.debug without its `if (!debugLogging) return`
DebugUnconditional(ctx, msg, n) ==
    [ctx EXCEPT !.logs = Append(@, LogEntry("debug", msg, n))]

\* context.debug of runTarget
Debug(ctx, msg, n) ==
    IF ~ctx.debugLogging THEN ctx
    ELSE [ctx EXCEPT !.logs = Append(@, LogEntry("debug", msg, n))]

\* ---------------------------------------------------------------------------
\* obfuscator.io target
\* ---------------------------------------------------------------------------

\* findArrayRotator (external probe): whether it finds the rotator
FindArrayRotator(tr) == tr.rotator

\* findDecoders (external probe): how many decoders it returns
FindDecoders(tr) == tr.decoders

\* applyTransform / applyTransformAsync / applyTransforms with one of the
\* generic transforms: it makes the mutations counted in `field`, reports
\* their number, and is recorded under `names`
ApplyExternal(ctx, names, field) ==
    [ctx EXCEPT !.changes = @ + ctx.ast[field],
                !.ast = [@ EXCEPT ![field] = 0],
                !.applied = @ \o names]

\* the loop `for (const decoder of decoders)` applying inlineDecoderWrappers
RECURSIVE InlineWrappers(_, _)
InlineWrappers(ctx, n) ==
    IF n = 0 THEN ctx
    ELSE ApplyExternal(InlineWrappers(ctx, n - 1),
                       <<"inlineDecoderWrappers">>, "wrappers")

\* the removals credited by the number of nodes actually removed
RemoveInfrastructureCounted(ctx, n) ==
    IF n > 0
    THEN [ctx EXCEPT !.ast = [@ EXCEPT !.stringArray = FALSE,
                                       !.rotator = FALSE,
                                       !.decoders = 0],
                     !.changes = @ + 1 + (IF ctx.ast.rotator THEN 1 ELSE 0) + n]
    ELSE ctx

\* `if (decoders.length > 0) { ...remove(); state.changes += 2 + n }`
RemoveInfrastructure(ctx, n) ==
    IF n > 0
    THEN [ctx EXCEPT !.ast = [@ EXCEPT !.stringArray = FALSE,
                                       !.rotator = FALSE,
                                       !.decoders = 0],
                     !.changes = @ + RemovalBase + n]
    ELSE ctx

\* run, from findArrayRotator on (a string array was found)
OioPipeline(ctx) ==
    LET n  == FindDecoders(ctx.ast)
        c1 == Log(ctx, "String Array Rotate",
                  IF FindArrayRotator(ctx.ast) THEN 1 ELSE 0)
        c2 == Log(c1, "String Array Decoders", n)
        c3 == ApplyExternal(c2, <<"inlineObjectProps">>, "objProps")
        c4 == InlineWrappers(c3, n)
        c5 == ApplyExternal(c4, <<"inlineDecodedStrings">>, "decoderCalls")
        c6 == RemoveInfrastructure(c5, n)
    IN  ApplyExternal(c6, <<"mergeStrings", "deadCode", "controlFlowObject",
                            "controlFlowSwitch">>, "cleanup")

\* run, after the sandbox check
OioWithSandbox(ctx) ==
    LET found == FindStringArray(ctx.ast)
        c1 == Log(ctx, "String Array", IF found THEN 1 ELSE 0)
    IN  IF ~found THEN c1 ELSE OioPipeline(c1)

\* run without its `if (!sandbox) return`
OioRunNoSandboxCheck(ctx) == OioWithSandbox(ctx)

\* obfuscatorIOTarget.deobfuscate.run
OioRun(ctx) == IF ~ctx.sandbox THEN ctx ELSE OioWithSandbox(ctx)

\* ---------------------------------------------------------------------------
\* Abba target
\* ---------------------------------------------------------------------------
\* A transform maps a tree to [ast, changes, examined]: the tree it leaves,
\* the value of this.changes, and whether any handler reached a debugLog call.

TransformResult(tr, changes, examined) ==
    [ast |-> tr, changes |-> changes, examined |-> examined]

\* abba-string-array-extractor: an IIFE initializer that evaluates to an
\* array becomes an array expression of generated string literals
StringArrayExtractor(tr) ==
    IF tr.arr = "iife"
    THEN TransformResult([tr EXCEPT !.arr = "lit"], 1, TRUE)
    ELSE TransformResult(tr, 0, tr.arr # "none")

\* abba-string-array-rotator: matches only when the binding's initializer is
\* an array expression; rotates it and removes the IIFE
StringArrayRotator(tr) ==
    IF tr.rot /\ tr.arr = "lit"
    THEN TransformResult([tr EXCEPT !.rot = FALSE], 1, TRUE)
    ELSE TransformResult(tr, 0, tr.rot)

\* abba-proxy-inliner: identifies the proxy when the array binding's
\* initializer is an array expression, replaces the calls and, on program
\* exit, removes the proxy declaration
ProxyInliner(tr) ==
    IF tr.proxy /\ tr.arr = "lit"
    THEN TransformResult([tr EXCEPT !.proxy = FALSE, !.proxyCalls = 0],
                         tr.proxyCalls + 1, TRUE)
    ELSE TransformResult(tr, 0, tr.proxy \/ tr.loader)

\* abba-string-normalizer: deletes `extra` from every literal that has one
StringNormalizer(tr) ==
    TransformResult([tr EXCEPT !.extras = 0], tr.extras, tr.extras > 0)

\* abba-member-expression-simplifier: obj["name"] becomes obj.name
MemberExpressionSimplifier(tr) ==
    TransformResult([tr EXCEPT !.members = 0], tr.members, tr.members > 0)

\* abba-module-resolver: every loader call becomes
\* registry["p"] = (factory)(registry["p"]), which puts two new computed
\* members with a string-literal name into the tree (paths of one part, a
\* valid identifier); on program exit the loader declaration is removed
ModuleResolver(tr) ==
    IF tr.loader
    THEN TransformResult([tr EXCEPT !.loader = FALSE, !.modules = 0,
                                    !.members = @ + 2 * tr.modules],
                         tr.modules + 1, TRUE)
    ELSE TransformResult(tr, 0, FALSE)

\* the steps of abbaTarget.deobfuscate.run, in the order of the code:
\* <<transform name, label of its log line>>
AbbaSteps ==
    << <<"abba-string-array-extractor", "String Array Extractor">>,
       <<"abba-string-array-rotator", "String Array Rotator">>,
       <<"abba-proxy-inliner", "Proxy Inliner">>,
       <<"abba-string-normalizer", "String Normalizer">>,
       <<"abba-member-expression-simplifier", "Member Expression Simplifier">>,
       <<"abba-module-resolver", "Module Resolver">> >>

\* the visitor of an Abba transform, by name
AbbaTransform(name, tr) ==
    CASE name = "abba-string-array-extractor" -> StringArrayExtractor(tr)
      [] name = "abba-string-array-rotator" -> StringArrayRotator(tr)
      [] name = "abba-proxy-inliner" -> ProxyInliner(tr)
      [] name = "abba-string-normalizer" -> StringNormalizer(tr)
      [] name = "abba-member-expression-simplifier" ->
            MemberExpressionSimplifier(tr)
      [] name = "abba-module-resolver" -> ModuleResolver(tr)

\* one step of run: applyTransform(ast, transform, {debug}), then
\* state.changes += result.changes, then log(...)
AbbaStep(ctx, step) ==
    LET r  == AbbaTransform(step[1], ctx.ast)
        c1 == IF r.examined THEN Debug(ctx, step[1], 0) ELSE ctx
        c2 == [c1 EXCEPT !.ast = r.ast,
                         !.changes = @ + r.changes,
                         !.applied = Append(@, step[1])]
    IN  Log(c2, step[2], r.changes)

RECURSIVE AbbaStepsUpTo(_, _)
AbbaStepsUpTo(ctx, k) ==
    IF k = 0 THEN ctx ELSE AbbaStep(AbbaStepsUpTo(ctx, k - 1), AbbaSteps[k])

\* abbaTarget.deobfuscate.run
AbbaRun(ctx) == AbbaStepsUpTo(ctx, Len(AbbaSteps))

\* ---------------------------------------------------------------------------
\* The runner: resolveTarget, runTarget, runDeobfuscation
\* ---------------------------------------------------------------------------
\* DeobfuscateRunnerOptions.  target is [type, value] with type "undefined"
\* (omitted), "boolean" (value "true" or "false") or "string"; threshold is
\* [set, value], value in tenths.

OptTarget(type, value) == [type |-> type, value |-> value]

Options(target, threshold, sandbox, debugLogging) ==
    [target |-> target, threshold |-> threshold, sandbox |-> sandbox,
     debugLogging |-> debugLogging]

Omitted == OptTarget("undefined", "")

True == OptTarget("boolean", "true")

False == OptTarget("boolean", "false")

Auto == OptTarget("string", "auto")

NoThreshold == [set |-> FALSE, value |-> 0]

Threshold(v) == [set |-> TRUE, value |-> v]

\* what resolveTarget hands back: a target, undefined, or a thrown error,
\* with the ids whose detect it had called
Resolution(outcome, t, error, called) ==
    [outcome |-> outcome, target |-> t, error |-> error, called |-> called]

\* the auto-detect branch comparing with > instead of >=
AutoDetectStrict(ts, d, tr, threshold) ==
    LET detections == Detect(ts, tr)
        defaultTarget == GetDefault(ts, d)
    IN  IF detections.raised
        THEN Resolution("error", Undefined, "DetectionError", detections.called)
        ELSE IF Len(detections.results) > 0
                /\ detections.results[1].confidence > threshold
        THEN Resolution("target", detections.results[1].target, "",
                        detections.called)
        ELSE IF defaultTarget # Undefined
        THEN Resolution("target", defaultTarget, "", detections.called)
        ELSE Resolution("none", Undefined, "", detections.called)

\* the auto-detect branch without the fall-back to the default target
AutoDetectNoDefault(ts, d, tr, threshold) ==
    LET detections == Detect(ts, tr)
    IN  IF detections.raised
        THEN Resolution("error", Undefined, "DetectionError", detections.called)
        ELSE IF Len(detections.results) > 0
                /\ detections.results[1].confidence >= threshold
        THEN Resolution("target", detections.results[1].target, "",
                        detections.called)
        ELSE Resolution("none", Undefined, "", detections.called)

\* the auto-detect branch of resolveTarget
AutoDetect(ts, d, tr, threshold) ==
    LET detections == Detect(ts, tr)
        defaultTarget == GetDefault(ts, d)
    IN  IF detections.raised
        THEN Resolution("error", Undefined, "DetectionError", detections.called)
        ELSE IF Len(detections.results) > 0
                /\ detections.results[1].confidence >= threshold
        THEN Resolution("target", detections.results[1].target, "",
                        detections.called)
        ELSE IF defaultTarget # Undefined
        THEN Resolution("target", defaultTarget, "", detections.called)
        ELSE Resolution("none", Undefined, "", detections.called)

\* the explicit-id branch returning undefined for an unknown id
ExplicitTargetNoThrow(ts, id) ==
    LET found == Get(ts, id)
    IN  IF found = Undefined
        THEN Resolution("none", Undefined, "", <<>>)
        ELSE Resolution("target", found, "", <<>>)

\* the explicit-id branch of resolveTarget
ExplicitTarget(ts, id) ==
    LET found == Get(ts, id)
    IN  IF found = Undefined
        THEN Resolution("error", Undefined, "UnknownTarget", <<>>)
        ELSE Resolution("target", found, "", <<>>)

\* resolveTarget without its `if (target === false)` return
ResolveTargetNoSkip(opts, ts, d, tr) ==
    LET target == IF opts.target \in {Omitted, False} THEN True ELSE opts.target
        threshold == IF opts.threshold.set THEN opts.threshold.value
                     ELSE DefaultThreshold
    IN  IF target.type = "string" /\ target.value # "auto"
        THEN ExplicitTarget(ts, target.value)
        ELSE AutoDetect(ts, d, tr, threshold)

\* resolveTarget
ResolveTarget(opts, ts, d, tr) ==
    LET target == IF opts.target = Omitted THEN True ELSE opts.target
        threshold == IF opts.threshold.set THEN opts.threshold.value
                     ELSE DefaultThreshold
    IN  IF target = False THEN Resolution("none", Undefined, "", <<>>)
        ELSE IF target.type = "string" /\ target.value # "auto"
        THEN ExplicitTarget(ts, target.value)
        ELSE IF target = Auto \/ target = True
        THEN AutoDetect(ts, d, tr, threshold)
        ELSE Resolution("none", Undefined, "", <<>>)

\* target.deobfuscate.run(context), by implementation; the run of a custom
\* target is opaque and is taken to leave the context alone
TargetRun(t, ctx) ==
    CASE t.impl = "oio" -> OioRun(ctx)
      [] t.impl = "abba" -> AbbaRun(ctx)
      [] OTHER -> ctx

\* runTarget: the context it builds, the run, the closing log line (none of
\* the targets has postTransforms)
RunTargetOp(t, tr, changes, opts) ==
    LET ctx == [ast |-> tr, changes |-> changes, sandbox |-> opts.sandbox,
                debugLogging |-> opts.debugLogging,
                logs |-> <<LogEntry("info", "Starting deobfuscation", 0)>>,
                applied |-> <<>>]
        after == TargetRun(t, ctx)
    IN  [after EXCEPT !.logs = Append(@, LogEntry("info", "Completed",
                                                  after.changes))]

\* ---------------------------------------------------------------------------
\* State
\* ---------------------------------------------------------------------------
\* The registry persists; everything else describes the one call in progress
\* on the registry or the runner (the program is single-threaded: a call is
\* made when the previous one has returned or thrown).
VARIABLES
    targets,          \* DeobfuscatorRegistry.targets, in insertion order
    defaultTargetId,  \* DeobfuscatorRegistry.defaultTargetId
    pc,               \* where the call stands: "idle" (no call), "resolving"
                      \* and "running" (inside runDeobfuscation), "done"
                      \* (returned), "failed" (threw)
    ret,              \* the call: [op, id, ok]; ok is FALSE when it threw,
                      \* and for unregister when it returned false
    detections,       \* what registry.detect returned, called directly
    options,          \* the options of runDeobfuscation
    ast,              \* the tree of the call
    ast0,             \* that tree as it was when the call was made
    changes,          \* state.changes
    resolution,       \* what resolveTarget produced
    ran,              \* the targets whose run was invoked, in order
    applied,          \* the transforms the run applied, in order
    logs,             \* the calls of options.onLog, in order
    node,             \* the syntax one transform is applied to on its own
    visit             \* what that transform's traversal has made of it

vars == <<targets, defaultTargetId, pc, ret, detections, options, ast, ast0,
          changes, resolution, ran, applied, logs, node, visit>>

\* the state of a transform taken on its own
unitVars == <<node, visit>>

registryVars == <<targets, defaultTargetId>>

runVars == <<options, ast, ast0, changes, resolution, ran, applied, logs>>

Ret(op, id, ok) == [op |-> op, id |-> id, ok |-> ok]

NoRet == Ret("none", "", TRUE)

NoResolution == Resolution("pending", Undefined, "", <<>>)

NoOptions == Options(Omitted, NoThreshold, FALSE, FALSE)

NoDetections == [raised |-> FALSE, results |-> <<>>, called |-> <<>>]

\* no call in progress
Idle ==
    /\ pc = "idle"
    /\ ret = NoRet
    /\ detections = NoDetections
    /\ options = NoOptions
    /\ ast = EmptyTree
    /\ ast0 = EmptyTree
    /\ changes = 0
    /\ resolution = NoResolution
    /\ ran = <<>>
    /\ applied = <<>>
    /\ logs = <<>>

\* no transform is taken on its own
NoNode == [kind |-> "none"]

NoVisit == [kind |-> "none"]

NoUnit ==
    /\ node = NoNode
    /\ visit = NoVisit

\* a fresh DeobfuscatorRegistry
Init ==
    /\ targets = <<>>
    /\ defaultTargetId = Null
    /\ Idle
    /\ NoUnit

\* the registry once deobfuscate/targets/index.ts has been loaded
InitBuiltin ==
    /\ targets = RegisterOp(RegisterOp(<<>>, obfuscatorIOTarget), abbaTarget)
    /\ defaultTargetId = "obfuscator.io"
    /\ Idle
    /\ NoUnit

\* ---------------------------------------------------------------------------
\* Inputs
\* ---------------------------------------------------------------------------

OioInputs == {tr \in OioTrees : WellFormedOio(tr)}

AbbaInputs == {tr \in AbbaTrees : WellFormedAbba(tr)}

\* the trees the registry and the resolution are exercised with: nothing to
\* find, an obfuscator.io tree with a string array, an Abba tree
SampleTrees ==
    { EmptyTree,
      Tree(TRUE, TRUE, 1, 0, 0, 1, 0, "none", FALSE, FALSE, 0, 0, 0, FALSE, 0),
      Tree(FALSE, FALSE, 0, 0, 0, 0, 0, "iife", TRUE, TRUE, 1, 0, 1, FALSE, 0) }

TargetOptions ==
    {Omitted, True, False, Auto} \cup {OptTarget("string", id) : id \in Ids}

ThresholdOptions == {NoThreshold, Threshold(0), Threshold(5), Threshold(8)}

\* ---------------------------------------------------------------------------
\* Actions: the registry
\* ---------------------------------------------------------------------------

\* registry.register(t)
Register(t) ==
    /\ pc = "idle"
    /\ targets' = RegisterOp(targets, t)
    /\ ret' = Ret("register", t.id, TRUE)
    /\ pc' = "done"
    /\ UNCHANGED <<defaultTargetId, detections, runVars>>
    /\ UNCHANGED unitVars

\* registry.unregister(id)
Unregister(id) ==
    /\ pc = "idle"
    /\ targets' = UnregisterOp(targets, id)
    /\ ret' = Ret("unregister", id, Has(targets, id))
    /\ pc' = "done"
    /\ UNCHANGED <<defaultTargetId, detections, runVars>>
    /\ UNCHANGED unitVars

\* registry.setDefault(id)
SetDefault(id) ==
    /\ pc = "idle"
    /\ defaultTargetId' =
           SetDefaultOp(targets, defaultTargetId, id).defaultTargetId
    /\ ret' = Ret("setDefault", id,
                  SetDefaultOp(targets, defaultTargetId, id).ok)
    /\ pc' = IF ret'.ok THEN "done" ELSE "failed"
    /\ UNCHANGED <<targets, detections, runVars>>
    /\ UNCHANGED unitVars

\* registry.detect(tree), called directly
DetectCall(tr) ==
    /\ pc = "idle"
    /\ detections' = Detect(targets, tr)
    /\ ret' = Ret("detect", "", ~detections'.raised)
    /\ pc' = IF ret'.ok THEN "done" ELSE "failed"
    /\ ast' = tr
    /\ ast0' = tr
    /\ UNCHANGED <<registryVars, options, changes, resolution, ran, applied,
                   logs>>
    /\ UNCHANGED unitVars

\* ---------------------------------------------------------------------------
\* Actions: runDeobfuscation
\* ---------------------------------------------------------------------------

\* runDeobfuscation(tree, opts) is called: state = {changes: 0}
Call(opts, tr) ==
    /\ pc = "idle"
    /\ pc' = "resolving"
    /\ ret' = Ret("runDeobfuscation", "", TRUE)
    /\ options' = opts
    /\ ast' = tr
    /\ ast0' = tr
    /\ changes' = 0
    /\ UNCHANGED <<registryVars, detections, resolution, ran, applied, logs>>
    /\ UNCHANGED unitVars

\* `await resolveTarget(ast, options)` and the `if (!target)` branch
Resolve ==
    /\ pc = "resolving"
    /\ resolution' = ResolveTarget(options, targets, defaultTargetId, ast)
    /\ pc' = CASE resolution'.outcome = "error" -> "failed"
               [] resolution'.outcome = "none" -> "done"
               [] OTHER -> "running"
    /\ logs' = IF resolution'.outcome = "none"
               THEN <<LogEntry("info", "No deobfuscation target to run", 0)>>
               ELSE logs
    /\ ret' = Ret("runDeobfuscation", "", resolution'.outcome # "error")
    /\ UNCHANGED <<registryVars, detections, options, ast, ast0, changes, ran,
                   applied>>
    /\ UNCHANGED unitVars

\* `await runTarget(target, ast, state, options)`
RunTarget ==
    /\ pc = "running"
    /\ LET r == RunTargetOp(resolution.target, ast, changes, options)
       IN  /\ ast' = r.ast
           /\ changes' = r.changes
           /\ applied' = r.applied
           /\ logs' = r.logs
    /\ ran' = Append(ran, resolution.target)
    /\ pc' = "done"
    /\ UNCHANGED <<registryVars, ret, detections, options, ast0, resolution>>
    /\ UNCHANGED unitVars

\* the caller has taken the result, or the error
Return ==
    /\ pc \in {"done", "failed"}
    /\ pc' = "idle"
    /\ ret' = NoRet
    /\ detections' = NoDetections
    /\ options' = NoOptions
    /\ ast' = EmptyTree
    /\ ast0' = EmptyTree
    /\ changes' = 0
    /\ resolution' = NoResolution
    /\ ran' = <<>>
    /\ applied' = <<>>
    /\ logs' = <<>>
    /\ UNCHANGED registryVars
    /\ UNCHANGED unitVars

RegistryOps ==
    \/ \E t \in AllTargets : Register(t)
    \/ \E id \in Ids : Unregister(id)
    \/ \E id \in Ids : SetDefault(id)
    \/ \E tr \in SampleTrees : DetectCall(tr)

CallSample ==
    \E ta \in TargetOptions, th \in ThresholdOptions, tr \in SampleTrees :
        Call(Options(ta, th, TRUE, FALSE), tr)

Next ==
    \/ RegistryOps
    \/ CallSample
    \/ Resolve
    \/ RunTarget
    \/ Return

Spec == Init /\ [][Next]_vars

\* The obfuscator.io pipeline on every input tree, with the built-in registry
CallOio ==
    \E ta \in {Omitted, OptTarget("string", "obfuscator.io")},
       sb \in BOOLEAN, tr \in OioInputs :
        Call(Options(ta, NoThreshold, sb, FALSE), tr)

NextOio == CallOio \/ Resolve \/ RunTarget \/ Return

SpecOio == InitBuiltin /\ [][NextOio]_vars

\* The Abba pipeline on every input tree, with the built-in registry
CallAbba ==
    \E dl \in BOOLEAN, tr \in AbbaInputs :
        Call(Options(OptTarget("string", "abba"), NoThreshold, TRUE, dl), tr)

NextAbba == CallAbba \/ Resolve \/ RunTarget \/ Return

SpecAbba == InitBuiltin /\ [][NextAbba]_vars

\* ---------------------------------------------------------------------------
\* Properties
\* ---------------------------------------------------------------------------

\* the registered target objects
Registered == {targets[i] : i \in 1..Len(targets)}

\* runDeobfuscation has got past resolveTarget
Resolved == ret.op = "runDeobfuscation" /\ pc \in {"running", "done", "failed"}

\* runDeobfuscation has returned
Returned == ret.op = "runDeobfuscation" /\ pc = "done"

ExplicitMode == options.target.type = "string" /\ options.target.value # "auto"

AutoMode == options.target \in {Omitted, True, Auto}

ThresholdOf(opts) ==
    IF opts.threshold.set THEN opts.threshold.value ELSE DefaultThreshold

\* t has a detect function that returns a result with confidence > 0 on tr
Detects(t, tr) ==
    /\ t.det # "none"
    /\ ~CallDetect(t, tr).throws
    /\ CallDetect(t, tr).confidence > 0

\* the registered targets detection reports on tr
Detecting(tr) == {t \in Registered : Detects(t, tr)}

\* some detection result on tr reaches the threshold
ReachesThreshold(tr) ==
    \E t \in Detecting(tr) : CallDetect(t, tr).confidence >= ThresholdOf(options)

\* C1: with options.target a string other than 'auto', resolution calls no
\* detect; if the registry holds a target with that id, exactly that target
\* is run; if not, the call fails with the unknown-target error, no run is
\* invoked and the tree is as it was.
C1_ExplicitTarget ==
    (Resolved /\ ExplicitMode) =>
        /\ resolution.called = <<>>
        /\ IF Has(targets, options.target.value)
           THEN /\ resolution.outcome = "target"
                /\ resolution.target = Get(targets, options.target.value)
                /\ pc # "failed"
                /\ pc = "done" => ran = <<Get(targets, options.target.value)>>
           ELSE /\ pc = "failed"
                /\ resolution.error = "UnknownTarget"
                /\ ran = <<>>
                /\ ast = ast0

C1_Witness ==
    /\ Resolved
    /\ ExplicitMode
    /\ ~Has(targets, options.target.value)
    /\ targets # <<>>
    /\ pc = "failed"

\* C2: in auto mode, when detection returns a result and the best confidence
\* is at least the threshold (0.3 when omitted), the target that is run is a
\* registered target whose detection confidence is the highest.
C2_BestDetectionRuns ==
    (Returned /\ AutoMode /\ ReachesThreshold(ast0)) =>
        /\ Len(ran) = 1
        /\ ran[1] \in Detecting(ast0)
        /\ \A t \in Detecting(ast0) :
              CallDetect(ran[1], ast0).confidence >= CallDetect(t, ast0).confidence

C2_Witness ==
    /\ Returned
    /\ AutoMode
    /\ Cardinality(Detecting(ast0)) >= 2
    /\ \E t \in Detecting(ast0) :
          CallDetect(t, ast0).confidence = ThresholdOf(options)
    /\ \A t \in Detecting(ast0) :
          CallDetect(t, ast0).confidence <= ThresholdOf(options)
    /\ GetDefault(targets, defaultTargetId) \notin Detecting(ast0)
    /\ GetDefault(targets, defaultTargetId) # Undefined

C4_SkipWhenFalse ==
    (Resolved /\ options.target = False) =>
        /\ resolution.called = <<>>
        /\ resolution.outcome = "none"
        /\ pc = "done"
        /\ ran = <<>>
        /\ applied = <<>>
        /\ ast = ast0
        /\ changes = 0

C4_Witness ==
    /\ Returned
    /\ options.target = False
    /\ Detecting(ast0) # {}
    /\ GetDefault(targets, defaultTargetId) # Undefined

\* the number of entries of a detection list that are for target t
Entries(rs, t) == Cardinality({i \in 1..Len(rs) : rs[i].target = t})

\* C5: registry.detect returns exactly one entry for each registered target
\* whose detect function returns a confidence above 0, none for a target
\* without detect function or with confidence 0, and the list is ordered by
\* non-increasing confidence.
C5_DetectResult ==
    (ret.op = "detect" /\ pc = "done") =>
        LET rs == detections.results
        IN  /\ \A t \in Registered :
                  Entries(rs, t) = IF Detects(t, ast0) THEN 1 ELSE 0
            /\ \A i \in 1..Len(rs) :
                  /\ rs[i].target \in Registered
                  /\ rs[i].confidence = CallDetect(rs[i].target, ast0).confidence
            /\ \A i \in 1..Len(rs), j \in 1..Len(rs) :
                  i < j => rs[i].confidence >= rs[j].confidence

C5_Witness ==
    /\ ret.op = "detect"
    /\ pc = "done"
    /\ Len(detections.results) = 2
    /\ targets[1] = detections.results[2].target
    /\ detections.results[1].confidence > detections.results[2].confidence
    /\ \E t \in Registered : ~Detects(t, ast0)

NonThrowing(t) == t.det # "throw"

\* C6: a detect function that throws or rejects does not make registry.detect
\* raise: that target is left out and the result is the one the registry
\* would give without the throwing targets; so auto-mode resolution never
\* fails.
C6_DetectionErrorsSwallowed ==
    /\ (ret.op = "detect" /\ pc \in {"done", "failed"}) =>
          /\ pc = "done"
          /\ \A i \in 1..Len(detections.results) :
                NonThrowing(detections.results[i].target)
          /\ detections.results =
                Detect(SelectSeq(targets, NonThrowing), ast0).results
    /\ (Resolved /\ AutoMode) => pc # "failed"

C6_Witness ==
    /\ ret.op = "detect"
    /\ pc = "done"
    /\ Len(targets) = 3
    /\ ~NonThrowing(targets[1])
    /\ Len(detections.results) = 2

\* C7: setDefault(id) throws when no target with that id is registered and
\* then leaves the default and the registered targets as they were; when the
\* id is registered, getDefault() afterwards returns that target.
C7_SetDefault ==
    [][\A id \in Ids :
          SetDefault(id) =>
              IF ~Has(targets, id)
              THEN /\ pc' = "failed"
                   /\ UNCHANGED registryVars
              ELSE /\ pc' = "done"
                   /\ GetDefault(targets', defaultTargetId') = Get(targets', id)]_vars

\* obfuscator.io's run was invoked by the call that has returned
OioRan == Returned /\ ran = <<obfuscatorIOTarget>>

\* C8: obfuscator.io's run is a no-op when the context has no sandbox and
\* when findStringArray finds nothing: the tree and state.changes are as they
\* were and none of the later steps is applied.
C8_OioNoOp ==
    (OioRan /\ (~options.sandbox \/ ~FindStringArray(ast0))) =>
        /\ ast = ast0
        /\ changes = 0
        /\ applied = <<>>

C8_Witness ==
    /\ OioRan
    /\ ~options.sandbox
    /\ FindStringArray(ast0)
    /\ FindDecoders(ast0) > 0
    /\ ast0.decoderCalls > 0

\* what the generic transforms of the obfuscator.io run report on tree tr
OioTransformChanges(tr) ==
    tr.objProps + tr.wrappers + tr.decoderCalls + tr.cleanup

\* C9: with n >= 1 decoders, the string array, the rotator and all decoders
\* are removed and exactly 2 + n is added to state.changes for it, rotator or
\* not; with n = 0 none of them is removed and nothing is added for removals.
C9_RemovalCredit ==
    (OioRan /\ options.sandbox /\ FindStringArray(ast0)) =>
        IF FindDecoders(ast0) >= 1
        THEN /\ ~ast.stringArray
             /\ ~ast.rotator
             /\ ast.decoders = 0
             /\ changes = OioTransformChanges(ast0) + 2 + FindDecoders(ast0)
        ELSE /\ ast.stringArray
             /\ ast.rotator = ast0.rotator
             /\ changes = OioTransformChanges(ast0)

C9_Witness ==
    /\ OioRan
    /\ options.sandbox
    /\ FindStringArray(ast0)
    /\ ~FindArrayRotator(ast0)
    /\ FindDecoders(ast0) = MaxDecoders
    /\ ~ast.stringArray

\* the seven transforms of the Abba pipeline, in the order it is described
SevenTransforms ==
    <<"abba-string-array-extractor", "abba-string-array-rotator",
      "abba-proxy-inliner", "abba-string-normalizer",
      "abba-member-expression-simplifier", "abba-module-resolver",
      "abba-dead-code-removal">>

InfoLogs == SelectSeq(logs, LAMBDA e : e.level = "info")

\* C10: the Abba run applies seven transforms in this order: extractor,
\* rotator, proxy inliner, normalizer, member simplifier, module resolver,
\* dead-code removal; each one's change count is added to state.changes and
\* one info line is logged per transform.
C10_SevenTransformsInOrder ==
    (Returned /\ ran = <<abbaTarget>>) =>
        /\ applied = SevenTransforms
        /\ Len(InfoLogs) = Len(SevenTransforms) + 2
        /\ changes = InfoLogs[2].n + InfoLogs[3].n + InfoLogs[4].n
                     + InfoLogs[5].n + InfoLogs[6].n + InfoLogs[7].n
                     + InfoLogs[8].n

\* ---------------------------------------------------------------------------
\* The string array rotator (abba-string-array-rotator), on one call expression
\* ---------------------------------------------------------------------------

\* the longest array initializer, and the largest numeric argument
MaxElements == 4

MaxRotation == 5

\* A call expression as the rotator's visitor sees it: the type of the callee,
\* the types of the arguments, the value of the numeric argument, whether the
\* callee's body, as JSON, holds 'push' and holds 'shift', what the first
\* argument is bound to, the top-level statements of the callee's body, and
\* the elements of the bound array initializer.
RotatorCall(callee, params, args, value, push, shift, binding, stmts, elements) ==
    [kind |-> "rotator", callee |-> callee, params |-> params, args |-> args,
     value |-> value,
     push |-> push, shift |-> shift, binding |-> binding, stmts |-> stmts,
     elements |-> elements]

\* steps 1 to 3 of the handler: every early return before the ++ detection
RotatorMatches(call) ==
    /\ call.callee = "FunctionExpression"
    /\ Len(call.args) = 2
    /\ call.args[1] = "Identifier"
    /\ call.args[2] = "NumericLiteral"
    /\ call.push /\ call.shift
    /\ call.binding = "VariableDeclarator:ArrayExpression"

\* step 4, one statement: an expression statement that is a call whose first
\* argument is an update expression, operator ++, prefix
IsPrefixIncrementCall(stmt) == stmt = "call(++x)"

\* step 4, the loop over callee.body.body with its break
DetectPrefixIncrement(stmts) ==
    \E i \in 1..Len(stmts) : IsPrefixIncrementCall(stmts[i])

RotationAmount(call) ==
    call.value + (IF DetectPrefixIncrement(call.stmts) THEN 1 ELSE 0)

\* n times: elements.pop(), elements.unshift(it)
RECURSIVE PopUnshift(_, _)
PopUnshift(elements, n) ==
    IF n <= 0 \/ elements = <<>>
    THEN elements
    ELSE PopUnshift(<<elements[Len(elements)]>>
                        \o SubSeq(elements, 1, Len(elements) - 1), n - 1)

\* the loop of step 5, n times: elements.shift(), elements.push(it)
RECURSIVE ShiftPush(_, _)
ShiftPush(elements, n) ==
    IF n <= 0
    THEN elements
    ELSE ShiftPush(Append(Tail(elements), Head(elements)), n - 1)

\* what the handler leaves: the elements of the array, whether path.remove()
\* was called on the call, and this.changes
RotatorVisit(elements, removed, n) ==
    [kind |-> "rotator", elements |-> elements, removed |-> removed,
     changes |-> n]

\* the CallExpression handler
StringArrayRotatorCallExpression(call) ==
    IF ~RotatorMatches(call)
    THEN RotatorVisit(call.elements, FALSE, 0)
    ELSE IF Len(call.elements) = 0
    THEN RotatorVisit(call.elements, FALSE, 0)
    ELSE RotatorVisit(
             ShiftPush(call.elements,
                       RotationAmount(call) % Len(call.elements)),
             TRUE, 1)

\* the element nodes, told apart by a number
RECURSIVE SeqsUpTo(_, _)
SeqsUpTo(S, n) ==
    IF n = 0
    THEN {<<>>}
    ELSE LET shorter == SeqsUpTo(S, n - 1)
         IN  shorter \cup {Append(q, x) : q \in shorter, x \in S}

\* arrays of up to MaxElements elements: all different, or the last one the
\* same node as the first
ElementLists ==
    {[i \in 1..n |-> i] : n \in 0..MaxElements}
    \cup {[i \in 1..n |-> IF i = n THEN 1 ELSE i] : n \in 2..MaxElements}

\* bodies of the callee: the pattern of the transform's description, the
\* same with a plain and with a postfix argument, the ++ only inside the
\* declaration, two prefix calls after a call without arguments, no
\* statement, the call with the prefix ++ inside an if statement and as the
\* initializer of a declaration, a call with a postfix ++ inside an if
\* statement
RotatorBodies ==
    { <<"var", "call(++x)">>, <<"var", "call(x)">>, <<"var", "call(x++)">>,
      <<"var">>, <<"call()", "call(++x)", "call(++x)">>, <<>>,
      <<"var", "if{call(++x)}">>, <<"var=call(++x)">>,
      <<"var", "if{call(x++)}">> }

\* the calls that pass steps 1 to 3
MatchingRotatorCalls ==
    { RotatorCall("FunctionExpression", 2, <<"Identifier", "NumericLiteral">>,
                  v, TRUE, TRUE, "VariableDeclarator:ArrayExpression", b, e) :
        v \in 0..MaxRotation, b \in RotatorBodies, e \in ElementLists }

\* one call for every early return of steps 1 to 3
OtherRotatorCalls ==
    LET two == <<"Identifier", "NumericLiteral">>
        body == <<"var", "call(++x)">>
        arr == "VariableDeclarator:ArrayExpression"
    IN  { RotatorCall("Identifier", 0, two, 1, TRUE, TRUE, arr, body, <<1, 2>>),
          RotatorCall("FunctionExpression", 2, <<"Identifier">>, 1, TRUE, TRUE,
                      arr, body, <<1, 2>>),
          RotatorCall("FunctionExpression", 2,
                      <<"Identifier", "NumericLiteral", "NumericLiteral">>,
                      1, TRUE, TRUE, arr, body, <<1, 2>>),
          RotatorCall("FunctionExpression", 2,
                      <<"NumericLiteral", "NumericLiteral">>, 1, TRUE, TRUE,
                      arr, body, <<1, 2>>),
          RotatorCall("FunctionExpression", 2, <<"Identifier", "StringLiteral">>,
                      1, TRUE, TRUE, arr, body, <<1, 2>>),
          RotatorCall("FunctionExpression", 2, two, 1, FALSE, TRUE, arr, body,
                      <<1, 2>>),
          RotatorCall("FunctionExpression", 2, two, 1, TRUE, FALSE, arr, body,
                      <<1, 2>>),
          RotatorCall("FunctionExpression", 2, two, 1, TRUE, TRUE, "none", body,
                      <<1, 2>>),
          RotatorCall("FunctionExpression", 2, two, 1, TRUE, TRUE,
                      "FunctionDeclaration", body, <<1, 2>>),
          RotatorCall("FunctionExpression", 2, two, 1, TRUE, TRUE,
                      "VariableDeclarator:CallExpression", body, <<1, 2>>) }

\* calls that pass steps 1 to 3, of a function expression that declares
\* no, one or three parameters
OtherParameterCalls ==
    { RotatorCall("FunctionExpression", n, <<"Identifier", "NumericLiteral">>,
                  v, TRUE, TRUE, "VariableDeclarator:ArrayExpression",
                  <<"var", "call(++x)">>, <<1, 2, 3>>) :
        n \in {0, 1, 3}, v \in 0..1 }

RotatorCalls ==
    MatchingRotatorCalls \cup OtherRotatorCalls \cup OtherParameterCalls

InitRotator ==
    /\ targets = <<>>
    /\ defaultTargetId = Null
    /\ Idle
    /\ node \in RotatorCalls
    /\ visit = NoVisit

\* the traversal reaches the call
VisitRotatorCall ==
    /\ node.kind = "rotator"
    /\ visit = NoVisit
    /\ visit' = StringArrayRotatorCallExpression(node)
    /\ UNCHANGED <<registryVars, pc, ret, detections, runVars, node>>

NextRotator == VisitRotatorCall

SpecRotator == InitRotator /\ [][NextRotator]_vars

\* the rotator's handler has run on a call that passes steps 1 to 3
RotatorMatched ==
    /\ node.kind = "rotator"
    /\ visit.kind = "rotator"
    /\ RotatorMatches(node)

\* the number of times x occurs in the sequence q
Occurrences(q, x) == Cardinality({i \in 1..Len(q) : q[i] = x})

\* C11: on a matched rotator call over an array of L >= 1 elements, with R
\* the numeric argument plus one when a prefix ++ is detected, the elements
\* are left rotated left by R mod L: new[i] = old[(i + R) mod L], counting
\* from 0; the length and the multiset of the elements are as they were.
C11_LeftRotation ==
    (RotatorMatched /\ Len(node.elements) >= 1) =>
        LET L == Len(node.elements)
            R == node.value
                 + (IF DetectPrefixIncrement(node.stmts) THEN 1 ELSE 0)
        IN  /\ Len(visit.elements) = L
            /\ \A i \in 0..(L - 1) :
                   visit.elements[i + 1] = node.elements[((i + R) % L) + 1]
            /\ \A x \in 1..MaxElements :
                   Occurrences(visit.elements, x)
                       = Occurrences(node.elements, x)

\* four elements, argument 2, prefix ++: rotation by 3
C11_Witness ==
    /\ RotatorMatched
    /\ node.elements = <<1, 2, 3, 4>>
    /\ node.value = 2
    /\ node.stmts = <<"var", "call(++x)">>
    /\ visit.elements = <<4, 1, 2, 3>>

\* the statement holds a call whose first argument is a prefix ++ update
\* expression, at whatever depth
HoldsPrefixIncrementCall(stmt) ==
    stmt \in {"call(++x)", "if{call(++x)}", "var=call(++x)"}

\* the elements rotated left by r
RotatedLeft(elements, r) ==
    [i \in 1..Len(elements) |->
        elements[((i - 1 + r) % Len(elements)) + 1]]

\* C25: the rotation is the numeric argument plus exactly 1 when a call
\* anywhere inside the body of the callee has a prefix ++ update expression
\* as its first argument, however deep the call is and however many there
\* are, and the numeric argument alone for a postfix ++ or without such a
\* call.
C25_PrefixIncrementAnyDepth ==
    (RotatorMatched /\ Len(node.elements) >= 1) =>
        visit.elements =
            RotatedLeft(node.elements,
                        node.value
                        + (IF \E i \in 1..Len(node.stmts) :
                                  HoldsPrefixIncrementCall(node.stmts[i])
                           THEN 1 ELSE 0))

\* the same with the calls that are statements of the body only
TopLevelPrefixIncrement ==
    (RotatorMatched /\ Len(node.elements) >= 1) =>
        visit.elements =
            RotatedLeft(node.elements,
                        node.value
                        + (IF \E i \in 1..Len(node.stmts) :
                                  node.stmts[i] = "call(++x)"
                           THEN 1 ELSE 0))

\* C26: a call whose callee is a function expression that declares another
\* number of parameters than two is left as it is: the array is not rotated,
\* the call is not removed and changes is not incremented.
C26_TwoParameters ==
    (/\ node.kind = "rotator"
     /\ visit.kind = "rotator"
     /\ node.callee = "FunctionExpression"
     /\ node.params # 2) =>
        /\ visit.elements = node.elements
        /\ visit.removed = FALSE
        /\ visit.changes = 0

\* C12: on a matched rotator call over an array initializer with no
\* elements, the call is removed and the element list is left as it was.
C12_EmptyArrayRemoved ==
    (RotatorMatched /\ Len(node.elements) = 0) =>
        /\ visit.removed
        /\ visit.elements = <<>>

\* ---------------------------------------------------------------------------
\* The proxy inliner (abba-proxy-inliner), on one program
\* ---------------------------------------------------------------------------

\* the most nodes of a program, the largest numeric argument of a call and
\* the longest string array
MaxNodes == 3

MaxIndex == 2

MaxStrings == 2

\* an element of the array initializer
Element(type, value) == [type |-> type, value |-> value]

\* the first argument of a call: its type, the value of a numeric literal,
\* the characters of a string literal
Argument(type, num, str) == [type |-> type, num |-> num, str |-> str]

NoArgument == Argument("none", 0, <<>>)

\* A node the visitor handles, in traversal order: a function declaration or
\* a variable declarator (type, the declared name, the type of the
\* initializer, the number of parameters, whether the body declares a
\* variable initialized with a computed member of an identifier, the number
\* subtracted in the body's assignment), or a call (the callee's name and
\* the first argument)
Declaration(type, name, init, params, access, offset) ==
    [type |-> type, name |-> name, init |-> init, params |-> params,
     access |-> access, offset |-> offset, arg |-> NoArgument]

CallExpression(name, arg) ==
    [type |-> "CallExpression", name |-> name, init |-> "none", params |-> 0,
     access |-> FALSE, offset |-> 0, arg |-> arg]

\* what path.replaceWith(t.stringLiteral(s)) leaves where the call was
StringLiteral(s) ==
    [type |-> "StringLiteral", name |-> s, init |-> "none", params |-> 0,
     access |-> FALSE, offset |-> 0, arg |-> NoArgument]

\* what proxyPath.remove() leaves where the declaration was
Removed ==
    [type |-> "removed", name |-> "", init |-> "none", params |-> 0,
     access |-> FALSE, offset |-> 0, arg |-> NoArgument]

\* a program: what the array name is bound to, the elements of the array
\* initializer, and the nodes
ProxyProgram(binding, elements, body) ==
    [kind |-> "proxy", binding |-> binding, elements |-> elements,
     body |-> body]

\* a number, or NaN
Number(v) == [nan |-> FALSE, value |-> v]

NaN == [nan |-> TRUE, value |-> 0]

HexDigits ==
    <<"0", "1", "2", "3", "4", "5", "6", "7", "8", "9",
      "a", "b", "c", "d", "e", "f">>

\* the value of the character c as a digit of the radix, or -1
DigitValue(c, radix) ==
    LET at == {i \in 1..radix : HexDigits[i] = c}
    IN  IF at = {} THEN -1 ELSE (CHOOSE i \in at : TRUE) - 1

\* the value of the longest prefix of chars made of digits of the radix,
\* after acc; seen tells whether a digit has been read
RECURSIVE ParseDigits(_, _, _, _)
ParseDigits(chars, radix, acc, seen) ==
    IF chars = <<>> \/ DigitValue(Head(chars), radix) < 0
    THEN IF seen THEN Number(acc) ELSE NaN
    ELSE ParseDigits(Tail(chars), radix,
                     acc * radix + DigitValue(Head(chars), radix), TRUE)

\* parseInt(chars, radix): a sign, for radix 16 the prefix 0x or 0X, then
\* the longest run of digits
ParseInt(chars, radix) ==
    LET signed == chars # <<>> /\ Head(chars) \in {"-", "+"}
        negative == signed /\ Head(chars) = "-"
        unsigned == IF signed THEN Tail(chars) ELSE chars
        prefixed == /\ radix = 16
                    /\ Len(unsigned) >= 2
                    /\ unsigned[1] = "0"
                    /\ unsigned[2] \in {"x", "X"}
        digits == IF prefixed THEN Tail(Tail(unsigned)) ELSE unsigned
        n == ParseDigits(digits, radix, 0, FALSE)
    IN  IF n.nan THEN NaN
        ELSE IF negative THEN Number(0 - n.value) ELSE n

\* val.startsWith('0x') || val.startsWith('0X')
StartsWithHexPrefix(chars) ==
    /\ Len(chars) >= 2
    /\ chars[1] = "0"
    /\ chars[2] \in {"x", "X"}

\* arrayInit.elements.map(el => t.isStringLiteral(el) ? el.value : '')
ExtractStrings(elements) ==
    [i \in 1..Len(elements) |->
        IF elements[i].type = "StringLiteral" THEN elements[i].value ELSE ""]

\* analyzeProxyFunction: the checks before the state is captured
AnalyzeProxyFunction(decl, program) ==
    /\ decl.params >= 1 /\ decl.params <= 2
    /\ decl.access
    /\ program.binding = "VariableDeclarator:ArrayExpression"

\* the visitor's closure state, the nodes as the traversal has left them so
\* far, and this.changes; proxyPath is the position of the declaration, 0
\* for null; deadCode is for the dead-code removal that follows
ProxyState(proxyName, proxyPath, offset, stringArray, body, n) ==
    [kind |-> "proxy", proxyName |-> proxyName, proxyPath |-> proxyPath,
     offset |-> offset, stringArray |-> stringArray, body |-> body,
     changes |-> n, deadCode |-> NoVisit]

\* the FunctionDeclaration and the VariableDeclarator handlers, on the node
\* at position i
VisitDeclaration(st, i, program) ==
    LET decl == st.body[i]
    IN  IF st.proxyName # "" THEN st
        ELSE IF decl.type = "VariableDeclarator"
                /\ decl.init # "FunctionExpression" THEN st
        ELSE IF ~AnalyzeProxyFunction(decl, program) THEN st
        ELSE ProxyState(decl.name, i, decl.offset,
                        ExtractStrings(program.elements), st.body, st.changes)

\* the index the CallExpression handler reads off the first argument; NaN
\* also stands for the argument that is no literal
ArgumentIndex(arg) ==
    IF arg.type = "StringLiteral"
    THEN IF StartsWithHexPrefix(arg.str)
         THEN ParseInt(arg.str, 16)
         ELSE ParseInt(arg.str, 10)
    ELSE IF arg.type = "NumericLiteral" THEN Number(arg.num)
    ELSE NaN

\* finalIndex may stand for an element of an array of n strings, n included
InBoundsInclusive(finalIndex, n) == ~(finalIndex < 0 \/ finalIndex > n)

\* the negation of `finalIndex < 0 || finalIndex >= stringArray.length`
InBounds(finalIndex, n) == ~(finalIndex < 0 \/ finalIndex >= n)

\* stringArray[finalIndex]
ElementAt(stringArray, finalIndex) ==
    IF finalIndex \in 0..(Len(stringArray) - 1)
    THEN stringArray[finalIndex + 1]
    ELSE "undefined"

\* the exit handler of CallExpression, on the node at position i
VisitCallExit(st, i) ==
    LET call == st.body[i]
        index == ArgumentIndex(call.arg)
        finalIndex == index.value - st.offset
    IN  IF st.proxyName = "" \/ Len(st.stringArray) = 0 THEN st
        ELSE IF call.name # st.proxyName THEN st
        ELSE IF call.arg.type = "none" THEN st
        ELSE IF call.arg.type \notin {"StringLiteral", "NumericLiteral"}
        THEN st
        ELSE IF index.nan THEN st
        ELSE IF ~InBounds(finalIndex, Len(st.stringArray)) THEN st
        ELSE [st EXCEPT
                 !.body[i] = StringLiteral(ElementAt(st.stringArray,
                                                     finalIndex)),
                 !.changes = st.changes + 1]

\* the traversal from the node at position i to the last one
RECURSIVE TraverseFrom(_, _, _)
TraverseFrom(st, i, program) ==
    IF i > Len(st.body) THEN st
    ELSE TraverseFrom(
             IF st.body[i].type \in {"FunctionDeclaration",
                                      "VariableDeclarator"}
             THEN VisitDeclaration(st, i, program)
             ELSE IF st.body[i].type = "CallExpression"
             THEN VisitCallExit(st, i)
             ELSE st,
             i + 1, program)

\* the exit handler of Program
ProxyProgramExit(st) ==
    IF st.proxyPath # 0 /\ st.proxyName # ""
    THEN [st EXCEPT !.body[st.proxyPath] = Removed,
                    !.changes = st.changes + 1]
    ELSE st

\* the transform, applied to a program
ProxyInlinerTraverse(program) ==
    ProxyProgramExit(
        TraverseFrom(ProxyState("", 0, 0, <<>>, program.body, 0), 1, program))

\* the strings of the array, by position
StringNames == <<"s0", "s1", "s2", "s3">>

\* the array initializers: up to MaxStrings string literals, and one whose
\* second element is no string literal
ProxyArrays ==
    { [i \in 1..n |-> Element("StringLiteral", StringNames[i])] :
        n \in 0..Min(MaxStrings, Len(StringNames)) }
    \cup { <<Element("StringLiteral", "s0"), Element("NumericLiteral", "7")>> }

\* string literal arguments: '0x1', '1', 'a', '-1'
StringArguments == { <<"0", "x", "1">>, <<"1">>, <<"a">>, <<"-", "1">> }

ProxyArguments ==
    {NoArgument, Argument("Identifier", 0, <<>>)}
    \cup {Argument("NumericLiteral", v, <<>>) : v \in 0..MaxIndex}
    \cup {Argument("StringLiteral", 0, str) : str \in StringArguments}

\* the proxy b as a declaration with offset 0 and as a function expression
\* with offset 1, and calls of b
ProxyNodes ==
    { Declaration("FunctionDeclaration", "b", "none", 2, TRUE, 0),
      Declaration("VariableDeclarator", "b", "FunctionExpression", 1, TRUE,
                  1) }
    \cup {CallExpression("b", arg) : arg \in ProxyArguments}

\* one program for every other way a declaration is no proxy, and one with
\* a function c of three parameters before the proxy and a call of c
OtherProxyPrograms ==
    LET array == <<Element("StringLiteral", "s0")>>
        call == CallExpression("b", Argument("NumericLiteral", 0, <<>>))
        ok == "VariableDeclarator:ArrayExpression"
    IN  { ProxyProgram(ok, array,
              <<Declaration("FunctionDeclaration", "c", "none", 3, TRUE, 0),
                Declaration("FunctionDeclaration", "b", "none", 2, TRUE, 0),
                CallExpression("c", Argument("NumericLiteral", 0, <<>>)),
                call>>),
          ProxyProgram(ok, array,
              <<Declaration("FunctionDeclaration", "b", "none", 0, TRUE, 0),
                call>>),
          ProxyProgram(ok, array,
              <<Declaration("FunctionDeclaration", "b", "none", 1, FALSE, 0),
                call>>),
          ProxyProgram(ok, array,
              <<Declaration("VariableDeclarator", "b", "StringLiteral", 1,
                            TRUE, 0), call>>),
          ProxyProgram("none", array,
              <<Declaration("FunctionDeclaration", "b", "none", 1, TRUE, 0),
                call>>),
          ProxyProgram("FunctionDeclaration", array,
              <<Declaration("FunctionDeclaration", "b", "none", 1, TRUE, 0),
                call>>),
          ProxyProgram("VariableDeclarator:CallExpression", array,
              <<Declaration("FunctionDeclaration", "b", "none", 1, TRUE, 0),
                call>>) }

ProxyPrograms ==
    { ProxyProgram("VariableDeclarator:ArrayExpression", array, body) :
        array \in ProxyArrays, body \in SeqsUpTo(ProxyNodes, MaxNodes) }
    \cup OtherProxyPrograms

InitProxy ==
    /\ targets = <<>>
    /\ defaultTargetId = Null
    /\ Idle
    /\ node \in ProxyPrograms
    /\ visit = NoVisit

\* the traversal of the program, to the exit of Program
TraverseProxyProgram ==
    /\ node.kind = "proxy"
    /\ visit = NoVisit
    /\ visit' = ProxyInlinerTraverse(node)
    /\ UNCHANGED <<registryVars, pc, ret, detections, runVars, node>>

NextProxy == TraverseProxyProgram

SpecProxy == InitProxy /\ [][NextProxy]_vars

\* the traversal has run and has identified a proxy
ProxyIdentified ==
    /\ node.kind = "proxy"
    /\ visit.kind = "proxy"
    /\ visit.proxyName # ""

\* the node at position i of the program is a call of the proxy whose first
\* argument is a literal with a value
LiteralProxyCall(i) ==
    /\ node.body[i].type = "CallExpression"
    /\ node.body[i].name = visit.proxyName
    /\ node.body[i].arg.type \in {"StringLiteral", "NumericLiteral"}
    /\ ~ArgumentIndex(node.body[i].arg).nan

\* value - offset of that call
FinalIndexOf(i) == ArgumentIndex(node.body[i].arg).value - visit.offset

\* the positions the traversal has changed
ChangedPositions == {i \in 1..Len(node.body) : visit.body[i] # node.body[i]}

CapturedStrings == {visit.stringArray[j] : j \in 1..Len(visit.stringArray)}

\* C13: a call of the proxy whose literal first argument has value v with
\* v - offset < 0 or v - offset >= n, n the number of captured strings, is
\* left as it is and counts for no change; a call is only ever replaced by a
\* string literal whose value is an element of the captured array.
C13_OutOfRangeLeft ==
    ProxyIdentified =>
        /\ \A i \in 1..Len(node.body) :
               (/\ LiteralProxyCall(i)
                /\ (FinalIndexOf(i) < 0
                    \/ FinalIndexOf(i) >= Len(visit.stringArray)))
               => visit.body[i] = node.body[i]
        /\ visit.changes = Cardinality(ChangedPositions)
        /\ \A i \in ChangedPositions :
               node.body[i].type = "CallExpression" =>
                   /\ visit.body[i].type = "StringLiteral"
                   /\ visit.body[i].name \in CapturedStrings

\* after the declaration with offset 1: a call with 0, below the range, is
\* left, a call with '0x1' is replaced
C13_Witness ==
    /\ ProxyIdentified
    /\ Len(node.body) = 3
    /\ visit.proxyPath = 1
    /\ visit.offset = 1
    /\ Len(visit.stringArray) = 2
    /\ node.body[2].arg = Argument("NumericLiteral", 0, <<>>)
    /\ node.body[3].arg = Argument("StringLiteral", 0, <<"0", "x", "1">>)
    /\ visit.body[2] = node.body[2]
    /\ visit.body[3] = StringLiteral("s0")
    /\ visit.changes = 2

\* the calls of the proxy with a literal first argument whose index is in
\* range
InRangeCalls ==
    {i \in 1..Len(node.body) :
        /\ LiteralProxyCall(i)
        /\ FinalIndexOf(i) >= 0
        /\ FinalIndexOf(i) < Len(visit.stringArray)}

\* C14: once a proxy is identified, every call of it whose first argument is
\* a numeric literal or a decimal or hexadecimal string literal with an index
\* in range is replaced by the string literal array[value - offset], before
\* or after the declaration, and the change count is the number of replaced
\* calls plus one.
C14_EveryCallReplaced ==
    ProxyIdentified =>
        /\ \A i \in InRangeCalls :
               visit.body[i] =
                   StringLiteral(visit.stringArray[FinalIndexOf(i) + 1])
        /\ visit.changes = Cardinality(InRangeCalls) + 1

\* ---------------------------------------------------------------------------
\* The member expression simplifier (abba-member-expression-simplifier), on
\* one member expression
\* ---------------------------------------------------------------------------

\* the longest property name drawn from NameAlphabet
MaxNameLength == 3

Letters ==
    { "a", "b", "c", "d", "e", "f", "g", "h", "i", "j", "k", "l", "m", "n",
      "o", "p", "q", "r", "s", "t", "u", "v", "w", "x", "y", "z",
      "A", "B", "C", "D", "E", "F", "G", "H", "I", "J", "K", "L", "M", "N",
      "O", "P", "Q", "R", "S", "T", "U", "V", "W", "X", "Y", "Z" }

DecimalDigits == {"0", "1", "2", "3", "4", "5", "6", "7", "8", "9"}

\* VALID_IDENTIFIER_REGEX.test(name): /^[a-zA-Z_$][a-zA-Z0-9_$]*$/, on the
\* characters of the name
ValidIdentifierRegexTest(name) ==
    /\ Len(name) >= 1
    /\ name[1] \in Letters \cup {"_", "$"}
    /\ \A i \in 2..Len(name) : name[i] \in Letters \cup DecimalDigits \cup {"_", "$"}

\* keywords and reserved words among the names that are drawn
ReservedWords ==
    { <<"i", "f">>, <<"i", "n">>, <<"d", "o">>, <<"c", "l", "a", "s", "s">> }

\* isIdentifierName of @babel/helper-validator-identifier, on names of the
\* characters above: an identifier start, then identifier parts
IsIdentifierName(name) ==
    /\ Len(name) >= 1
    /\ name[1] \in Letters \cup {"_", "$"}
    /\ \A i \in 2..Len(name) : name[i] \in Letters \cup DecimalDigits \cup {"_", "$"}

\* t.isValidIdentifier(name, reserved) of @babel/types: the keyword and
\* reserved word test is made only when reserved is true
IsValidIdentifier(name, reserved) ==
    /\ (reserved => name \notin ReservedWords)
    /\ IsIdentifierName(name)

\* a property of a member expression
Property(type, value) == [type |-> type, value |-> value]

\* a member expression, and with it this.changes
MemberExpression(computed, property, n) ==
    [kind |-> "member", computed |-> computed, property |-> property,
     changes |-> n]

\* the MemberExpression handler
MemberExpressionVisit(member) ==
    IF ~member.computed THEN member
    ELSE IF member.property.type # "StringLiteral" THEN member
    ELSE IF ~ValidIdentifierRegexTest(member.property.value) THEN member
    ELSE IF ~IsValidIdentifier(member.property.value, FALSE) THEN member
    ELSE MemberExpression(FALSE,
                          Property("Identifier", member.property.value),
                          member.changes + 1)

\* a letter of two keywords, a digit and the characters that set names apart
NameAlphabet == {"i", "f", "1", "-", ".", "$", "_"}

\* class, content-type, 1.2.3
ExampleNames ==
    { <<"c", "l", "a", "s", "s">>,
      <<"c", "o", "n", "t", "e", "n", "t", "-", "t", "y", "p", "e">>,
      <<"1", ".", "2", ".", "3">> }

PropertyNames == SeqsUpTo(NameAlphabet, MaxNameLength) \cup ExampleNames

MemberExpressions ==
    { MemberExpression(computed, Property(type, name), 0) :
        computed \in BOOLEAN,
        type \in {"StringLiteral", "Identifier", "NumericLiteral"},
        name \in PropertyNames }

InitMember ==
    /\ targets = <<>>
    /\ defaultTargetId = Null
    /\ Idle
    /\ node \in MemberExpressions
    /\ visit = NoVisit

\* the traversal reaches the member expression
VisitMemberExpression ==
    /\ node.kind = "member"
    /\ visit = NoVisit
    /\ visit' = MemberExpressionVisit(node)
    /\ UNCHANGED <<registryVars, pc, ret, detections, runVars, node>>

NextMember == VisitMemberExpression

SpecMember == InitMember /\ [][NextMember]_vars

\* C15: a computed member expression with a string literal property is
\* converted to dot notation if and only if the name matches
\* /^[A-Za-z_$][A-Za-z0-9_$]*$/ and is no reserved word; otherwise, as for
\* obj["class"], obj["content-type"] and obj["1.2.3"], it is left as it is
\* and counts for no change.
C15_DotNotationIff ==
    (/\ node.kind = "member"
     /\ visit.kind = "member"
     /\ node.computed
     /\ node.property.type = "StringLiteral") =>
        IF /\ ValidIdentifierRegexTest(node.property.value)
           /\ node.property.value \notin ReservedWords
        THEN visit = MemberExpression(
                         FALSE, Property("Identifier", node.property.value), 1)
        ELSE visit = node

\* ---------------------------------------------------------------------------
\* Dead-code removal (abba-dead-code-removal), on the bindings of one program
\* ---------------------------------------------------------------------------

\* the most reference paths of a program
MaxReferences == 2

\* the names of the bindings, in the order `for (const name in bindings)`
\* takes them
Names == <<"A", "B", "C">>

NameSet == {Names[i] : i \in 1..Len(Names)}

\* an expression: its type and its operands (the elements of an array, the
\* properties of an object, the value of a property, the operands of an
\* operator)
Expr(type, operands) == [type |-> type, operands |-> operands]

\* `var x;`
NoInitializer == Expr("none", <<>>)

LiteralTypes == {"StringLiteral", "NumericLiteral", "BooleanLiteral"}

FunctionTypes == {"FunctionExpression", "ArrowFunctionExpression"}

\* t.isExpression(node), on the types that are drawn
IsExpression(e) ==
    e.type \in LiteralTypes \cup FunctionTypes
               \cup {"Identifier", "ArrayExpression", "ObjectExpression",
                     "MemberExpression", "BinaryExpression",
                     "UnaryExpression", "ConditionalExpression",
                     "CallExpression", "NewExpression"}

\* isSafeInitializer without the descent into arrays, objects and operators
IsSafeInitializerShallow(init) ==
    init.type \notin {"CallExpression", "NewExpression"}

\* isSafeInitializer
RECURSIVE IsSafeInitializer(_)
IsSafeInitializer(init) ==
    CASE init.type = "none" -> TRUE
      [] init.type \in LiteralTypes -> TRUE
      [] init.type \in FunctionTypes -> TRUE
      [] init.type = "Identifier" -> TRUE
      [] init.type = "ArrayExpression" ->
             \A i \in 1..Len(init.operands) :
                 \/ init.operands[i].type = "null"
                 \/ /\ IsExpression(init.operands[i])
                    /\ IsSafeInitializer(init.operands[i])
      [] init.type = "ObjectExpression" ->
             \A i \in 1..Len(init.operands) :
                 /\ init.operands[i].type = "ObjectProperty"
                 /\ IsExpression(init.operands[i].operands[1])
                 /\ IsSafeInitializer(init.operands[i].operands[1])
      [] init.type = "MemberExpression" -> TRUE
      [] init.type = "BinaryExpression" ->
             /\ IsSafeInitializer(init.operands[1])
             /\ IsSafeInitializer(init.operands[2])
      [] init.type = "UnaryExpression" ->
             IsSafeInitializer(init.operands[1])
      [] init.type = "ConditionalExpression" ->
             /\ IsSafeInitializer(init.operands[1])
             /\ IsSafeInitializer(init.operands[2])
             /\ IsSafeInitializer(init.operands[3])
      [] OTHER -> FALSE

\* initPath.isPure(), the pure-initializer predicate of a binding: a literal,
\* a function, an identifier, a member expression, an array or object of
\* pure values, a unary, binary or conditional over pure operands; not a
\* call, not a `new`
RECURSIVE IsPure(_)
IsPure(init) ==
    CASE init.type \in LiteralTypes \cup FunctionTypes
                       \cup {"Identifier", "MemberExpression"} -> TRUE
      [] init.type = "ArrayExpression" ->
             \A i \in 1..Len(init.operands) :
                 init.operands[i].type = "null" \/ IsPure(init.operands[i])
      [] init.type = "ObjectExpression" ->
             \A i \in 1..Len(init.operands) :
                 /\ init.operands[i].type = "ObjectProperty"
                 /\ IsPure(init.operands[i].operands[1])
      [] init.type \in {"BinaryExpression", "UnaryExpression",
                        "ConditionalExpression"} ->
             \A i \in 1..Len(init.operands) : IsPure(init.operands[i])
      [] OTHER -> FALSE

\* a binding: the type of the declaring node ("none" when the name is not
\* declared), the initializer of a declarator, and the scope it belongs to:
\* the program's, or that of a function that stays in the tree
Binding(decl, init, scope) == [decl |-> decl, init |-> init, scope |-> scope]

NoBinding == Binding("none", NoInitializer, "program")

\* a reference path: the name it refers to, where it sits (in a statement
\* that is no declaration: "top"; in the declaration of a name; in a subtree
\* an earlier transform has removed: "ghost"), and whether it is a constant
\* violation (an assignment) rather than a reference
Reference(to, from, write) == [to |-> to, from |-> from, write |-> write]

\* a program: its bindings, the reference paths the scope cache holds for
\* them, and the number of its empty statements
DeadCodeProgram(bindings, references, empties) ==
    [kind |-> "deadcode", bindings |-> bindings, references |-> references,
     empties |-> empties]

\* the run so far: the transform ("run" for the run of passes, "visitor" for
\* the single traversal), the names still declared, referencePaths and
\* constantViolations by name, `changed`, passCount, removedBindings,
\* state.changes, the empty statements left, whether the run has returned,
\* and for every removal the live references and constant violations the
\* binding had when it was removed
DeadCodeState(version, present, cache, changed, passCount, removedBindings, n, empties, returned, removals) ==
    [kind |-> "deadcode", version |-> version, present |-> present,
     cache |-> cache, changed |-> changed, passCount |-> passCount,
     removedBindings |-> removedBindings, changes |-> n, empties |-> empties,
     returned |-> returned, removals |-> removals]

\* the reference sits in a statement that is no declaration
IsTopLevelReference(ref, present) == ref.from = "top"

\* isValidReference: the path still has the program among its ancestors
IsValidReference(ref, present) ==
    ref.from = "top" \/ ref.from \in present

\* the reference paths that are in the tree
TreeReferences(program, present) ==
    {ref \in program.references :
        ref.from = "top" \/ ref.from \in present}

\* the state `run` starts from: the cache is as the earlier transforms have
\* left it
DeadCodeStart(program, version) ==
    DeadCodeState(version,
                  {name \in NameSet : program.bindings[name].decl # "none"},
                  [name \in NameSet |->
                      {ref \in program.references : ref.to = name}],
                  TRUE, 0, <<>>, 0, program.empties, FALSE, <<>>)

\* path.scope.crawl() on the program: the bindings of the program's scope
\* are collected anew from the tree, the references found are registered
\* with the bindings of the other scopes
Crawl(st, program) ==
    [st EXCEPT !.cache =
        [name \in NameSet |->
            LET found == {ref \in TreeReferences(program, st.present) :
                             ref.to = name}
            IN  IF program.bindings[name].scope = "program"
                THEN found
                ELSE st.cache[name] \cup found]]

\* bindingPath.remove() with its bookkeeping
RemoveBinding(st, name, program) ==
    [st EXCEPT
        !.present = st.present \ {name},
        !.removedBindings = Append(st.removedBindings, name),
        !.changed = TRUE,
        !.changes = st.changes + 1,
        !.removals = Append(st.removals,
            [name |-> name,
             references |->
                 {ref \in TreeReferences(program, st.present) :
                     ref.to = name /\ ~ref.write},
             violations |->
                 {ref \in TreeReferences(program, st.present) :
                     ref.to = name /\ ref.write}])]

\* the body of the loop of processScope, for one name
ProcessBinding(st, name, program) ==
    LET binding == program.bindings[name]
        validRefs == {ref \in st.cache[name] :
                         ~ref.write /\ IsValidReference(ref, st.present)}
        validConstantViolations ==
            {ref \in st.cache[name] :
                ref.write /\ IsValidReference(ref, st.present)}
        totalValidRefs ==
            Cardinality(validRefs) + Cardinality(validConstantViolations)
    IN  IF name \notin st.present THEN st
        ELSE IF totalValidRefs > 0 THEN st
        ELSE IF binding.decl = "FunctionDeclaration"
        THEN RemoveBinding(st, name, program)
        ELSE IF /\ binding.decl = "VariableDeclarator"
                /\ (binding.init.type = "none" \/ IsPure(binding.init))
        THEN RemoveBinding(st, name, program)
        ELSE st

\* processScope on the bindings of one scope, from the i-th name on
RECURSIVE ProcessScopeFrom(_, _, _, _)
ProcessScopeFrom(st, scope, i, program) ==
    IF i > Len(Names) THEN st
    ELSE ProcessScopeFrom(
             IF program.bindings[Names[i]].scope = scope
             THEN ProcessBinding(st, Names[i], program)
             ELSE st,
             scope, i + 1, program)

ProcessScope(st, scope, program) == ProcessScopeFrom(st, scope, 1, program)

\* one turn of the loop that leaves `changed` false whatever it has removed
DeadCodePassOnce(st, program) ==
    LET entered == [st EXCEPT !.changed = FALSE,
                              !.passCount = st.passCount + 1]
        functions == ProcessScope(entered, "function", program)
        left == ProcessScope(Crawl(functions, program), "program", program)
    IN  [left EXCEPT !.changed = FALSE]

\* one turn of `while (changed)`: a traversal, in which the function scopes
\* exit before the program does
DeadCodePassOp(st, program) ==
    LET entered == [st EXCEPT !.changed = FALSE,
                              !.passCount = st.passCount + 1]
        functions == ProcessScope(entered, "function", program)
    IN  ProcessScope(Crawl(functions, program), "program", program)

\* the traversal after the loop: empty statements go, one change each
DeadCodeCleanupOp(st) ==
    [st EXCEPT !.changes = st.changes + st.empties,
               !.empties = 0,
               !.returned = TRUE]

\* the loop of run
RECURSIVE DeadCodeLoop(_, _)
DeadCodeLoop(st, program) ==
    IF st.changed
    THEN DeadCodeLoop(DeadCodePassOp(st, program), program)
    ELSE st

\* run(ast, state, options)
DeadCodeRun(program) ==
    DeadCodeCleanupOp(DeadCodeLoop(DeadCodeStart(program, "run"), program))

\* the loop of the visitor's Program.exit, for one name: binding.referenced
\* is as the crawl has left it
VisitorProcessBinding(st, name, program) ==
    LET binding == program.bindings[name]
        referenced == \E ref \in st.cache[name] : ~ref.write
    IN  IF binding.scope # "program" \/ name \notin st.present THEN st
        ELSE IF referenced THEN st
        ELSE IF binding.decl = "FunctionDeclaration"
        THEN RemoveBinding(st, name, program)
        ELSE IF /\ binding.decl = "VariableDeclarator"
                /\ IsSafeInitializer(binding.init)
        THEN RemoveBinding(st, name, program)
        ELSE st

RECURSIVE VisitorProgramExitFrom(_, _, _)
VisitorProgramExitFrom(st, i, program) ==
    IF i > Len(Names) THEN st
    ELSE VisitorProgramExitFrom(VisitorProcessBinding(st, Names[i], program),
                                i + 1, program)

\* the transform as a visitor: the empty statements go during the
\* traversal, the bindings at the exit of Program
DeadCodeVisitorTraverse(program) ==
    LET start == DeadCodeStart(program, "visitor")
        swept == [start EXCEPT !.changes = start.empties, !.empties = 0]
        done == VisitorProgramExitFrom(Crawl(swept, program), 1, program)
    IN  [done EXCEPT !.returned = TRUE, !.changed = FALSE, !.passCount = 1]

\* the subsets of S of at most n elements
RECURSIVE SubsetsUpTo(_, _)
SubsetsUpTo(S, n) ==
    IF n = 0
    THEN {{}}
    ELSE LET smaller == SubsetsUpTo(S, n - 1)
         IN  smaller \cup {T \cup {x} : T \in smaller, x \in S}

NumericLiteralExpr == Expr("NumericLiteral", <<>>)

FunctionExpr == Expr("FunctionExpression", <<>>)

CallExpr == Expr("CallExpression", <<>>)

NewExpr == Expr("NewExpression", <<>>)

\* the initializers of a declarator: none, 1, function(){}, x, x.y, f(),
\* new F(), [1, ,], [f()], {p: 1}, {...x}, 1 + f(), -new F(), 1 ? 1 : f()
Initializers ==
    { NoInitializer, NumericLiteralExpr, FunctionExpr,
      Expr("Identifier", <<>>), Expr("MemberExpression", <<>>),
      CallExpr, NewExpr,
      Expr("ArrayExpression", <<NumericLiteralExpr, Expr("null", <<>>)>>),
      Expr("ArrayExpression", <<CallExpr>>),
      Expr("ObjectExpression",
           <<Expr("ObjectProperty", <<NumericLiteralExpr>>)>>),
      Expr("ObjectExpression", <<Expr("SpreadElement", <<>>)>>),
      Expr("BinaryExpression", <<NumericLiteralExpr, CallExpr>>),
      Expr("UnaryExpression", <<NewExpr>>),
      Expr("ConditionalExpression",
           <<NumericLiteralExpr, NumericLiteralExpr, CallExpr>>) }

\* A with every initializer, B and C with fewer
BindingsOfA ==
    { NoBinding,
      Binding("FunctionDeclaration", NoInitializer, "program"),
      Binding("FunctionDeclaration", NoInitializer, "function"),
      Binding("VariableDeclarator", FunctionExpr, "function") }
    \cup {Binding("VariableDeclarator", init, "program") :
             init \in Initializers}

BindingsOfB ==
    { NoBinding,
      Binding("FunctionDeclaration", NoInitializer, "program"),
      Binding("VariableDeclarator", FunctionExpr, "program"),
      Binding("VariableDeclarator", CallExpr, "program") }

BindingsOfC ==
    { NoBinding,
      Binding("FunctionDeclaration", NoInitializer, "program") }

BindingMaps ==
    { [name \in NameSet |->
          CASE name = "A" -> a [] name = "B" -> b [] OTHER -> c] :
        a \in BindingsOfA, b \in BindingsOfB, c \in BindingsOfC }

\* references from anywhere, assignments from statements
PossibleReferences ==
    { Reference(to, from, FALSE) :
        to \in NameSet, from \in NameSet \cup {"top", "ghost"} }
    \cup {Reference(to, "top", TRUE) : to \in NameSet}

\* the declaration of the binding has identifiers in it
HoldsReferences(binding) ==
    \/ binding.decl = "FunctionDeclaration"
    \/ /\ binding.decl = "VariableDeclarator"
       /\ binding.init.type \notin LiteralTypes \cup {"none"}

\* every reference is to a declared name and sits where identifiers can
WellFormedReferences(bindings, references) ==
    \A ref \in references :
        /\ bindings[ref.to].decl # "none"
        /\ ref.from \in NameSet => HoldsReferences(bindings[ref.from])

ReferenceSets == SubsetsUpTo(PossibleReferences, MaxReferences)

DeadCodePrograms ==
    { program \in { DeadCodeProgram(bindings, references, 0) :
                        bindings \in BindingMaps,
                        references \in ReferenceSets } :
        WellFormedReferences(program.bindings, program.references) }
    \cup { DeadCodeProgram(bindings, {}, 1) : bindings \in BindingMaps }

InitDeadCode ==
    /\ targets = <<>>
    /\ defaultTargetId = Null
    /\ Idle
    /\ node \in DeadCodePrograms
    /\ visit = NoVisit

\* one turn of the loop of run; the first one starts the run
DeadCodePass ==
    /\ node.kind = "deadcode"
    /\ \/ visit = NoVisit
       \/ /\ visit.kind = "deadcode"
          /\ visit.version = "run"
          /\ ~visit.returned
          /\ visit.changed
    /\ visit' = DeadCodePassOp(IF visit = NoVisit
                               THEN DeadCodeStart(node, "run")
                               ELSE visit,
                               node)
    /\ UNCHANGED <<registryVars, pc, ret, detections, runVars, node>>

\* the loop has ended: the last traversal, and run returns
DeadCodeCleanup ==
    /\ visit.kind = "deadcode"
    /\ visit.version = "run"
    /\ ~visit.returned
    /\ ~visit.changed
    /\ visit' = DeadCodeCleanupOp(visit)
    /\ UNCHANGED <<registryVars, pc, ret, detections, runVars, node>>

\* the transform as a visitor: one traversal
DeadCodeVisitor ==
    /\ node.kind = "deadcode"
    /\ visit = NoVisit
    /\ visit' = DeadCodeVisitorTraverse(node)
    /\ UNCHANGED <<registryVars, pc, ret, detections, runVars, node>>

NextDeadCode == DeadCodePass \/ DeadCodeCleanup \/ DeadCodeVisitor

SpecDeadCode == InitDeadCode /\ [][NextDeadCode]_vars

\* the dead-code pass is at work on the program, or has returned
DeadCodeAtWork == node.kind = "deadcode" /\ visit.kind = "deadcode"

\* the initializer is a call or a `new`, or has one among the operands that
\* make it up
RECURSIVE Impure(_)
Impure(init) ==
    \/ init.type \in {"CallExpression", "NewExpression", "SpreadElement"}
    \/ /\ init.type \in {"ArrayExpression", "ObjectExpression",
                         "ObjectProperty", "BinaryExpression",
                         "UnaryExpression", "ConditionalExpression"}
       /\ \E i \in 1..Len(init.operands) : Impure(init.operands[i])

\* C16: a variable declarator whose initializer is a call or a `new`, or is
\* not pure for another reason, is never removed by the dead-code pass,
\* references or not: it is still declared when the pass has reached its
\* fixed point.
C16_ImpureInitializerKept ==
    DeadCodeAtWork =>
        \A name \in NameSet :
            (/\ node.bindings[name].decl = "VariableDeclarator"
             /\ Impure(node.bindings[name].init))
            => name \in visit.present

\* the run has returned, A = f() has no reference and is still declared,
\* and another binding has been removed
C16_Witness ==
    /\ DeadCodeAtWork
    /\ visit.version = "run"
    /\ visit.returned
    /\ node.bindings["A"] = Binding("VariableDeclarator", CallExpr, "program")
    /\ \A ref \in node.references : ref.to # "A"
    /\ "A" \in visit.present
    /\ Len(visit.removedBindings) >= 1

BindingName(name) ==
    CASE name = "a" -> "A"
      [] name = "b" -> "B"
      [] OTHER -> "C"

\* the declarations of the name among the nodes
DeclarationsOf(body, name) ==
    {i \in 1..Len(body) :
        /\ body[i].type \in {"FunctionDeclaration", "VariableDeclarator"}
        /\ body[i].name = name}

\* the binding of a function name among the nodes
BindingOfFunction(body, name) ==
    IF DeclarationsOf(body, name) = {}
    THEN NoBinding
    ELSE LET decl == body[CHOOSE i \in DeclarationsOf(body, name) :
                              \A j \in DeclarationsOf(body, name) : i <= j]
         IN  IF decl.type = "FunctionDeclaration"
             THEN Binding("FunctionDeclaration", NoInitializer, "program")
             ELSE Binding("VariableDeclarator", Expr(decl.init, <<>>),
                          "program")

\* the binding of the array name
BindingOfArray(program) ==
    CASE program.binding = "VariableDeclarator:ArrayExpression" ->
             Binding("VariableDeclarator",
                     Expr("ArrayExpression",
                          [i \in 1..Len(program.elements) |->
                              Expr(program.elements[i].type, <<>>)]),
                     "program")
      [] program.binding = "VariableDeclarator:CallExpression" ->
             Binding("VariableDeclarator", CallExpr, "program")
      [] program.binding = "FunctionDeclaration" ->
             Binding("FunctionDeclaration", NoInitializer, "program")
      [] OTHER -> NoBinding

\* the bindings and the references of a program of the proxy inliner whose
\* nodes are now `body`: a call refers to its callee, a function that reads
\* the array refers to the array
ProxyBindings(program, body) ==
    DeadCodeProgram(
        [name \in NameSet |->
            CASE name = "A" -> BindingOfArray(program)
              [] name = "B" -> BindingOfFunction(body, "b")
              [] OTHER -> BindingOfFunction(body, "c")],
        {Reference(BindingName(body[i].name), "top", FALSE) :
            i \in {j \in 1..Len(body) : body[j].type = "CallExpression"}}
        \cup {Reference("A", BindingName(body[i].name), FALSE) :
                 i \in {j \in 1..Len(body) :
                           /\ body[j].type \in {"FunctionDeclaration",
                                                "VariableDeclarator"}
                           /\ body[j].access}},
        0)

\* abba-dead-code-removal applied to the tree the proxy inliner has left
DeadCodeAfterProxy ==
    /\ node.kind = "proxy"
    /\ visit.kind = "proxy"
    /\ visit.deadCode = NoVisit
    /\ visit' = [visit EXCEPT
                    !.deadCode = DeadCodeRun(ProxyBindings(node, visit.body))]
    /\ UNCHANGED <<registryVars, pc, ret, detections, runVars, node>>

NextProxyDeadCode == TraverseProxyProgram \/ DeadCodeAfterProxy

SpecProxyDeadCode == InitProxy /\ [][NextProxyDeadCode]_vars

\* C19: after dead-code removal has run as the last step, every identifier
\* reference left in the tree resolves to a binding whose declaration is
\* still in the tree, or to a global: no call of a declaration that the
\* proxy inliner or the dead-code pass has removed is left.
C19_NoDanglingReference ==
    (/\ node.kind = "proxy"
     /\ visit.kind = "proxy"
     /\ visit.deadCode # NoVisit) =>
        LET before == ProxyBindings(node, node.body)
            after == ProxyBindings(node, visit.body)
        IN  \A ref \in TreeReferences(after, visit.deadCode.present) :
                before.bindings[ref.to].decl # "none"
                    => ref.to \in visit.deadCode.present

\* ---------------------------------------------------------------------------
\* The Abba pipeline, run again on the tree it has produced
\* ---------------------------------------------------------------------------

\* runDeobfuscation has returned, and is called again with the same options
\* on the tree it has left: state = {changes: 0}
CallAgain ==
    /\ pc = "done"
    /\ ret.op = "runDeobfuscation"
    /\ Len(ran) = 1
    /\ pc' = "resolving"
    /\ ast0' = ast
    /\ changes' = 0
    /\ resolution' = NoResolution
    /\ applied' = <<>>
    /\ logs' = <<>>
    /\ UNCHANGED <<registryVars, ret, detections, options, ast, ran, unitVars>>

NextAbbaAgain ==
    \/ CallAbba
    \/ Resolve
    \/ RunTarget
    \/ Return
    \/ CallAgain

SpecAbbaAgain == InitBuiltin /\ [][NextAbbaAgain]_vars

\* C18: a second run of a target's pipeline, on the tree the first run has
\* produced, changes nothing in the tree and reports changes = 0.
C18_SecondRunNoOp ==
    (Returned /\ Len(ran) = 2) =>
        /\ ast = ast0
        /\ changes = 0

\* ---------------------------------------------------------------------------
\* The proxies of the sandbox (string-array-extractor.ts)
\* ---------------------------------------------------------------------------

\* the most permissive proxies created in one behaviour
MaxProxies == 3

\* a property key: a string, or a well-known symbol
Key(symbol, name) == [symbol |-> symbol, name |-> name]

\* a JavaScript value: id tells objects of one type apart, returns is the type
\* of what a constant arrow function returns
Value(type, id, num, str, returns) ==
    [type |-> type, id |-> id, num |-> num, str |-> str, returns |-> returns]

Absent == Value("absent", 0, 0, "", "")

NumberValue(n) == Value("number", 0, n, "", "")

StringValue(s) == Value("string", 0, 0, s, "")

BooleanValue(b) == Value("boolean", 0, IF b THEN 1 ELSE 0, "", "")

\* () => v
ArrowFunction(v) == Value("function", 0, v.num, v.str, v.type)

\* the host's Function constructor
FunctionConstructor == Value("Function", 0, 0, "", "")

\* {}
ObjectLiteral == Value("object", 0, 0, "", "")

\* new Proxy(function () {}, handler): the id-th proxy created
PermissiveProxy(id) == Value("proxy", id, 0, "", "")

\* what a trap gives back, and the number of permissive proxies created so far
Completion(result, proxies) == [result |-> result, proxies |-> proxies]

createPermissiveProxy(proxies) ==
    Completion(PermissiveProxy(proxies + 1), proxies + 1)

\* handler.get(_target, prop)
PermissiveGet(prop, proxies) ==
    CASE prop = Key(TRUE, "toPrimitive") ->
             Completion(ArrowFunction(StringValue("")), proxies)
      [] prop = Key(TRUE, "toStringTag") ->
             Completion(StringValue("Object"), proxies)
      [] prop = Key(FALSE, "toString") ->
             Completion(ArrowFunction(StringValue("")), proxies)
      [] prop = Key(FALSE, "valueOf") ->
             Completion(ArrowFunction(NumberValue(0)), proxies)
      [] prop = Key(FALSE, "length") ->
             Completion(NumberValue(0), proxies)
      [] prop = Key(FALSE, "constructor") ->
             Completion(FunctionConstructor, proxies)
      [] prop = Key(FALSE, "prototype") ->
             Completion(ObjectLiteral, proxies)
      [] OTHER -> createPermissiveProxy(proxies)

\* handler.apply()
PermissiveApply(proxies) == createPermissiveProxy(proxies)

\* handler.construct()
PermissiveConstruct(proxies) == createPermissiveProxy(proxies)

\* handler.has()
PermissiveHas(proxies) == Completion(BooleanValue(TRUE), proxies)

\* handler.set(): nothing is written to the target
PermissiveSet(proxies) == Completion(BooleanValue(TRUE), proxies)

\* the names the model reads and writes on the sandbox object; none of them is
\* a property of Object.prototype
SandboxNames == {"parseInt", "Function", "window", "_0xabc", "process"}

\* baseSandbox, as far as SandboxNames goes
BaseSandbox ==
    [name \in SandboxNames |->
        CASE name = "parseInt" -> Value("builtin", 0, 0, "parseInt", "")
          [] name = "Function" -> FunctionConstructor
          [] name = "window" -> Value("object", 0, 0, "window", "")
          [] OTHER -> Absent]

\* wrapWithFallback(obj).get(target, prop)
FallbackGet(target, prop, proxies) ==
    IF target[prop] # Absent
    THEN IF target[prop].type = "object"
         THEN Completion([target[prop] EXCEPT !.type = "wrapped"], proxies)
         ELSE Completion(target[prop], proxies)
    ELSE createPermissiveProxy(proxies)

\* what an operation was: the trap, the proxy it was applied to (0 for the
\* sandbox object itself) and the key
Operation(trap, on, key) == [trap |-> trap, on |-> on, key |-> key]

\* the sandbox: its own properties, the proxies created, the properties
\* written to the targets of permissive proxies, and the last operation with
\* its result, the number of proxies there were before it and the number of
\* times it has invoked the callback it was given
SandboxState(own, proxies, written, op, result, before, invoked) ==
    [kind |-> "sandbox", own |-> own, proxies |-> proxies,
     written |-> written, op |-> op, result |-> result, before |-> before,
     invoked |-> invoked]

Complete(st, op, completion) ==
    SandboxState(st.own, completion.proxies, st.written, op,
                 completion.result, st.proxies, 0)

\* what a call of a function of the sandbox with a callback does: the times
\* the callback has been invoked when the call returns, and what it returns
Invocation(invoked, result) == [invoked |-> invoked, result |-> result]

UndefinedValue == Value("undefined", 0, 0, "", "")

TimerNames == {"setTimeout", "setInterval", "requestAnimationFrame"}

CancelNames == {"clearTimeout", "clearInterval", "cancelAnimationFrame"}

\* the timing functions of baseSandbox, called with a callback fn
TimerCall(name) ==
    CASE name = "setTimeout" -> Invocation(1, NumberValue(0))
      [] name = "setInterval" -> Invocation(0, NumberValue(0))
      [] name = "requestAnimationFrame" -> Invocation(1, NumberValue(0))
      [] OTHER -> Invocation(0, UndefinedValue)

\* the names the host's global scope defines, among those of the model
HostGlobals == {"parseInt", "Function", "process"}

\* executeInSandbox: new Function(...keys, code) makes the own keys of the
\* sandbox parameters, bound to sandbox[k]; any other free name of the code is
\* looked up in the host's global scope
ResolveName(name, proxies) ==
    IF BaseSandbox[name] # Absent
    THEN FallbackGet(BaseSandbox, name, proxies)
    ELSE IF name \in HostGlobals
    THEN Completion(Value("host", 0, 0, name, ""), proxies)
    ELSE Completion(Value("ReferenceError", 0, 0, name, ""), proxies)

PropertyKeys ==
    {Key(FALSE, name) :
        name \in {"toString", "valueOf", "length", "constructor",
                  "prototype", "then", "_0xabc"}}
    \cup {Key(TRUE, name) : name \in {"toPrimitive", "toStringTag", "iterator"}}

InitSandbox ==
    /\ targets = <<>>
    /\ defaultTargetId = Null
    /\ Idle
    /\ node = [kind |-> "sandbox"]
    /\ visit = NoVisit

\* createSandbox()
CreateSandbox ==
    /\ node.kind = "sandbox"
    /\ visit = NoVisit
    /\ visit' = SandboxState(BaseSandbox, 0, {},
                             Operation("create", 0, Key(FALSE, "")),
                             Absent, 0, 0)
    /\ UNCHANGED <<registryVars, pc, ret, detections, runVars, node>>

\* the evaluated code reads a name of the sandbox
SandboxGet ==
    /\ visit.kind = "sandbox"
    /\ \E name \in SandboxNames :
        /\ visit.own[name] = Absent => visit.proxies < MaxProxies
        /\ visit' = Complete(visit, Operation("get", 0, Key(FALSE, name)),
                             FallbackGet(visit.own, name, visit.proxies))
    /\ UNCHANGED <<registryVars, pc, ret, detections, runVars, node>>

\* the evaluated code writes a name of the sandbox: target[prop] = value
SandboxSet ==
    /\ visit.kind = "sandbox"
    /\ \E name \in {"_0xabc"} :
        visit' = [Complete(visit, Operation("set", 0, Key(FALSE, name)),
                           Completion(BooleanValue(TRUE), visit.proxies))
                  EXCEPT !.own = [visit.own EXCEPT ![name] = NumberValue(1)]]
    /\ UNCHANGED <<registryVars, pc, ret, detections, runVars, node>>

\* the evaluated code reads a property of a permissive proxy
ProxyGet ==
    /\ visit.kind = "sandbox"
    /\ \E on \in 1..visit.proxies, prop \in PropertyKeys :
        /\ PermissiveGet(prop, visit.proxies).proxies <= MaxProxies
        /\ visit' = Complete(visit, Operation("get", on, prop),
                             PermissiveGet(prop, visit.proxies))
    /\ UNCHANGED <<registryVars, pc, ret, detections, runVars, node>>

\* the evaluated code calls a permissive proxy
ProxyApply ==
    /\ visit.kind = "sandbox"
    /\ visit.proxies < MaxProxies
    /\ \E on \in 1..visit.proxies :
        visit' = Complete(visit, Operation("apply", on, Key(FALSE, "")),
                          PermissiveApply(visit.proxies))
    /\ UNCHANGED <<registryVars, pc, ret, detections, runVars, node>>

\* the evaluated code constructs with a permissive proxy
ProxyConstruct ==
    /\ visit.kind = "sandbox"
    /\ visit.proxies < MaxProxies
    /\ \E on \in 1..visit.proxies :
        visit' = Complete(visit, Operation("construct", on, Key(FALSE, "")),
                          PermissiveConstruct(visit.proxies))
    /\ UNCHANGED <<registryVars, pc, ret, detections, runVars, node>>

\* prop in proxy
ProxyHas ==
    /\ visit.kind = "sandbox"
    /\ \E on \in 1..visit.proxies, prop \in PropertyKeys :
        visit' = Complete(visit, Operation("has", on, prop),
                          PermissiveHas(visit.proxies))
    /\ UNCHANGED <<registryVars, pc, ret, detections, runVars, node>>

\* proxy[prop] = value
ProxySet ==
    /\ visit.kind = "sandbox"
    /\ \E on \in 1..visit.proxies, prop \in PropertyKeys :
        visit' = Complete(visit, Operation("set", on, prop),
                          PermissiveSet(visit.proxies))
    /\ UNCHANGED <<registryVars, pc, ret, detections, runVars, node>>

\* the arrow function a read has returned is called
CallArrowFunction ==
    /\ visit.kind = "sandbox"
    /\ visit.result.type = "function"
    /\ visit' = Complete(visit, [visit.op EXCEPT !.trap = "call"],
                         Completion(Value(visit.result.returns, 0,
                                          visit.result.num, visit.result.str,
                                          ""),
                                    visit.proxies))
    /\ UNCHANGED <<registryVars, pc, ret, detections, runVars, node>>

\* the evaluated code calls a timing function of the sandbox with a callback
CallTimer ==
    /\ visit.kind = "sandbox"
    /\ \E name \in TimerNames \cup CancelNames :
        visit' = [Complete(visit, Operation("timer", 0, Key(FALSE, name)),
                           Completion(TimerCall(name).result, visit.proxies))
                  EXCEPT !.invoked = TimerCall(name).invoked]
    /\ UNCHANGED <<registryVars, pc, ret, detections, runVars, node>>

\* the evaluated code uses a free name
ResolveIdentifier ==
    /\ visit.kind = "sandbox"
    /\ \E name \in SandboxNames :
        visit' = Complete(visit, Operation("name", 0, Key(FALSE, name)),
                          ResolveName(name, visit.proxies))
    /\ UNCHANGED <<registryVars, pc, ret, detections, runVars, node>>

NextSandbox ==
    \/ CreateSandbox
    \/ CallTimer
    \/ ResolveIdentifier
    \/ SandboxGet
    \/ SandboxSet
    \/ ProxyGet
    \/ ProxyApply
    \/ ProxyConstruct
    \/ ProxyHas
    \/ ProxySet
    \/ CallArrowFunction

SpecSandbox == InitSandbox /\ [][NextSandbox]_vars

\* the last operation has returned a permissive proxy that did not exist
\* before it
FreshPermissiveProxy ==
    /\ visit.result.type = "proxy"
    /\ visit.result.id > visit.before
    /\ visit.result.id <= visit.proxies

\* C20: on a permissive proxy, every property read other than toString,
\* valueOf and length, every call and every construction returns a fresh
\* permissive proxy; `in` is true; a write succeeds and has no effect;
\* toString() returns "", valueOf() returns 0 and length is 0.
C20_PermissiveProxy ==
    (visit.kind = "sandbox" /\ visit.op.on > 0) =>
        /\ visit.written = {}
        /\ CASE visit.op.trap = "get" ->
                    IF visit.op.key = Key(FALSE, "length")
                    THEN visit.result = NumberValue(0)
                    ELSE IF visit.op.key \in {Key(FALSE, "toString"),
                                              Key(FALSE, "valueOf")}
                    THEN visit.result.type = "function"
                    ELSE FreshPermissiveProxy
             [] visit.op.trap = "call" ->
                    /\ visit.op.key = Key(FALSE, "toString") =>
                           visit.result = StringValue("")
                    /\ visit.op.key = Key(FALSE, "valueOf") =>
                           visit.result = NumberValue(0)
             [] visit.op.trap \in {"apply", "construct"} ->
                    FreshPermissiveProxy
             [] visit.op.trap \in {"has", "set"} ->
                    visit.result = BooleanValue(TRUE)

\* a read of a key without a case of its own in the get trap returns a fresh
\* permissive proxy
OrdinaryKeysFresh ==
    (/\ visit.kind = "sandbox"
     /\ visit.op.on > 0
     /\ visit.op.trap = "get"
     /\ visit.op.key \in {Key(FALSE, "then"), Key(FALSE, "_0xabc"),
                          Key(TRUE, "iterator")}) =>
        FreshPermissiveProxy

\* C21: setTimeout, setInterval and requestAnimationFrame of the sandbox
\* have invoked the callback they were given when they return, and return 0.
C21_TimersSynchronous ==
    (/\ visit.kind = "sandbox"
     /\ visit.op.trap = "timer"
     /\ visit.op.key.name \in TimerNames) =>
        /\ visit.invoked = 1
        /\ visit.result = NumberValue(0)

\* a value of the host: the host's Function constructor, a built-in function
\* of the host, or an object of the host's global scope
HostObject(v) == v.type \in {"Function", "builtin", "host"}

\* C22: no value the evaluated code gets from a name seeded into the sandbox,
\* from `this`, from a free name or from a property of a permissive proxy
\* (constructor included) is an object of the host.
C22_NoHostReference ==
    visit.kind = "sandbox" => ~HostObject(visit.result)

\* ---------------------------------------------------------------------------
\* Module-loader resolver (abba-module-resolver), on the statements of one
\* program
\* ---------------------------------------------------------------------------

\* the most statements of a program with a module loader
MaxStatements == 3

Nothing == [type |-> "None"]

\* an argument of a call: a string literal has its characters as value, a
\* function its name
LoaderArgument(type, value) == [type |-> type, value |-> value]

\* function name(params) { var alias = registry; ... }: split tells whether
\* the body mentions split, alias is the identifier the first
\* `var m = identifier` with an identifier outside the parameters is
\* initialised with ("" if there is none), bound whether the scope has a
\* binding for it
LoaderFunction(params, split, alias, bound) ==
    [params |-> params, split |-> split, alias |-> alias, bound |-> bound]

\* a statement of the program
Statement(type, name, fn, args, left, right) ==
    [type |-> type, name |-> name, fn |-> fn, args |-> args, left |-> left,
     right |-> right]

LoaderDeclaration(name, fn) ==
    Statement("FunctionDeclaration", name, fn, <<>>, Nothing, Nothing)

LoaderCall(callee, args) ==
    Statement("CallExpression", callee, Nothing, args, Nothing, Nothing)

\* left = (factory)(argument)
AssignmentExpression(left, factory, argument) ==
    Statement("AssignmentExpression", "=", Nothing, <<>>, left,
              [callee |-> factory, arguments |-> <<argument>>])

RemovedStatement == Statement("Removed", "", Nothing, <<>>, Nothing, Nothing)

RECURSIVE SplitFrom(_, _, _, _)
\* String.prototype.split('.'), from the i-th character on
SplitFrom(str, i, parts, part) ==
    IF i > Len(str)
    THEN Append(parts, part)
    ELSE IF str[i] = "."
    THEN SplitFrom(str, i + 1, Append(parts, part), <<>>)
    ELSE SplitFrom(str, i + 1, parts, Append(part, str[i]))

Split(str) == SplitFrom(str, 1, <<>>, <<>>)

\* buildMemberExpression: registry[parts[1]]...[parts[k]], the chain of
\* computed members on the registry identifier, from the inside out
BuildMemberExpression(registryName, parts) ==
    [type |-> "MemberExpression", object |-> registryName,
     properties |-> [i \in 1..Len(parts) |->
                        LoaderArgument("StringLiteral", parts[i])],
     computed |-> TRUE]

\* the state of the visitor: the closure's loaderName, loaderPath (the index
\* of the declaration, 0 for null) and registryName, the body and this.changes
ResolverState(loaderName, loaderPath, registryName, body, n) ==
    [kind |-> "resolver", loaderName |-> loaderName,
     loaderPath |-> loaderPath, registryName |-> registryName, body |-> body,
     changes |-> n]

\* FunctionDeclaration(path), on the i-th statement
VisitLoaderDeclaration(st, i) ==
    LET decl == st.body[i] IN
    IF st.loaderName # "" THEN st
    ELSE IF decl.fn.params # 2 THEN st
    ELSE IF ~decl.fn.split THEN st
    ELSE IF decl.fn.alias = "" THEN st
    ELSE IF ~decl.fn.bound THEN st
    ELSE [st EXCEPT !.loaderName = decl.name, !.loaderPath = i,
                    !.registryName = decl.fn.alias]

\* CallExpression.exit(path), on the i-th statement
VisitLoaderCallExit(st, i) ==
    LET call == st.body[i] IN
    IF st.loaderName = "" \/ st.registryName = "" THEN st
    ELSE IF call.name # st.loaderName THEN st
    ELSE IF Len(call.args) < 2 THEN st
    ELSE IF call.args[1].type # "StringLiteral" THEN st
    ELSE IF call.args[2].type \notin
                {"FunctionExpression", "ArrowFunctionExpression"} THEN st
    ELSE LET pathParts == Split(call.args[1].value) IN
         [st EXCEPT
            !.body[i] = AssignmentExpression(
                            BuildMemberExpression(st.registryName, pathParts),
                            call.args[2],
                            BuildMemberExpression(st.registryName, pathParts)),
            !.changes = @ + 1]

RECURSIVE ResolverTraverseFrom(_, _)
\* the traversal of the statements, in the order of the source
ResolverTraverseFrom(st, i) ==
    IF i > Len(st.body)
    THEN st
    ELSE ResolverTraverseFrom(
             CASE st.body[i].type = "FunctionDeclaration" ->
                      VisitLoaderDeclaration(st, i)
               [] st.body[i].type = "CallExpression" ->
                      VisitLoaderCallExit(st, i)
               [] OTHER -> st,
             i + 1)

\* Program.exit()
ResolverProgramExit(st) ==
    IF st.loaderPath # 0 /\ st.loaderName # ""
    THEN [st EXCEPT !.body[st.loaderPath] = RemovedStatement,
                    !.changes = @ + 1]
    ELSE st

ModuleResolverTraverse(program) ==
    ResolverProgramExit(
        ResolverTraverseFrom(ResolverState("", 0, "", program.body, 0), 1))

FunctionArgument == LoaderArgument("FunctionExpression", "f")

ArrowArgument == LoaderArgument("ArrowFunctionExpression", "g")

\* the statements of the programs
ResolverStatements ==
    { LoaderDeclaration("M", LoaderFunction(2, TRUE, "R", TRUE)),
      LoaderDeclaration("M", LoaderFunction(2, TRUE, "", FALSE)),
      LoaderDeclaration("N", LoaderFunction(3, TRUE, "R", TRUE)),
      LoaderCall("M", <<LoaderArgument("StringLiteral", <<"A">>),
                        FunctionArgument>>),
      LoaderCall("M", <<LoaderArgument("StringLiteral", <<"A", ".", "B">>),
                        ArrowArgument>>),
      LoaderCall("M", <<LoaderArgument("StringLiteral", <<"A", ".">>),
                        FunctionArgument>>),
      LoaderCall("M", <<LoaderArgument("StringLiteral", <<"A">>)>>),
      LoaderCall("M", <<LoaderArgument("StringLiteral", <<"B">>),
                        FunctionArgument, LoaderArgument("Identifier", "x")>>),
      LoaderCall("M", <<LoaderArgument("Identifier", <<"A">>),
                        FunctionArgument>>),
      LoaderCall("M", <<LoaderArgument("StringLiteral", <<"A">>),
                        LoaderArgument("Identifier", "f")>>),
      LoaderCall("N", <<LoaderArgument("StringLiteral", <<"A">>),
                        FunctionArgument>>) }

\* programs whose first statement is the loader: every call comes after it
LoaderFirstPrograms ==
    { [kind |-> "resolver",
       body |-> <<LoaderDeclaration("M", LoaderFunction(2, TRUE, "R", TRUE))>>
                \o rest] :
        rest \in SeqsUpTo(ResolverStatements, MaxStatements - 1) }

ResolverPrograms ==
    LoaderFirstPrograms
    \cup { [kind |-> "resolver", body |-> body] :
             body \in SeqsUpTo(ResolverStatements, MaxStatements - 1) }

InitResolver ==
    /\ targets = <<>>
    /\ defaultTargetId = Null
    /\ Idle
    /\ node \in ResolverPrograms
    /\ visit = NoVisit

\* the traversal of the program, to the exit of Program
TraverseResolverProgram ==
    /\ node.kind = "resolver"
    /\ visit = NoVisit
    /\ visit' = ModuleResolverTraverse(node)
    /\ UNCHANGED <<registryVars, pc, ret, detections, runVars, node>>

NextResolver == TraverseResolverProgram

SpecResolver == InitResolver /\ [][NextResolver]_vars

\* the i-th statement of the program is a call of the loader, of the shape
\* loader(string literal, function or arrow function)
IsLoaderCall(i) ==
    /\ node.body[i].type = "CallExpression"
    /\ node.body[i].name = visit.loaderName
    /\ Len(node.body[i].args) = 2
    /\ node.body[i].args[1].type = "StringLiteral"
    /\ node.body[i].args[2].type \in
           {"FunctionExpression", "ArrowFunctionExpression"}

\* registry[p1]...[pk], written down from the path's parts
RegistryChain(parts) ==
    [type |-> "MemberExpression", object |-> visit.registryName,
     properties |-> [j \in 1..Len(parts) |->
                        [type |-> "StringLiteral", value |-> parts[j]]],
     computed |-> TRUE]

\* the i-th statement has become registry[p1]...[pk] =
\* (factory)(registry[p1]...[pk]) for the parts p1..pk of its path
Rewritten(i) ==
    LET parts == Split(node.body[i].args[1].value) IN
    /\ visit.body[i].type = "AssignmentExpression"
    /\ visit.body[i].left = RegistryChain(parts)
    /\ visit.body[i].right.callee = node.body[i].args[2]
    /\ visit.body[i].right.arguments = <<RegistryChain(parts)>>

RewrittenCalls ==
    {i \in 1..Len(node.body) : visit.body[i].type = "AssignmentExpression"}

LoaderIdentified ==
    /\ node.kind = "resolver"
    /\ visit.kind = "resolver"
    /\ visit.loaderName # ""

\* C23: with the loader identified, every call loader(path, factory) of the
\* tree with a string-literal path and a function or arrow factory has become
\* registry[p1]...[pk] = (factory)(registry[p1]...[pk]), every other call is
\* as it was, the loader's declaration is removed and changes is the number
\* of rewritten calls plus one.
C23_LoaderCallsResolved ==
    LoaderIdentified =>
        /\ \A i \in 1..Len(node.body) :
              IF IsLoaderCall(i)
              THEN Rewritten(i)
              ELSE i # visit.loaderPath => visit.body[i] = node.body[i]
        /\ visit.body[visit.loaderPath] = RemovedStatement
        /\ visit.changes = Cardinality(RewrittenCalls) + 1

\* in a program that declares the loader before any call of it, the calls
\* with a string-literal path and a function or arrow factory as their first
\* two arguments are rewritten, and the rest is as C23 has it
LoaderFirstResolved ==
    (LoaderIdentified /\ visit.loaderPath = 1) =>
        /\ \A i \in 2..Len(node.body) :
              IF /\ node.body[i].type = "CallExpression"
                 /\ node.body[i].name = visit.loaderName
                 /\ Len(node.body[i].args) >= 2
                 /\ node.body[i].args[1].type = "StringLiteral"
                 /\ node.body[i].args[2].type \in
                        {"FunctionExpression", "ArrowFunctionExpression"}
              THEN Rewritten(i)
              ELSE visit.body[i] = node.body[i]
        /\ visit.body[1] = RemovedStatement
        /\ visit.changes = Cardinality(RewrittenCalls) + 1

\* ---------------------------------------------------------------------------
\* The log of a run
\* ---------------------------------------------------------------------------

InfoOf(entries) == SelectSeq(entries, LAMBDA e : e.level = "info")

\* the onLog calls the same run makes with options.debugLogging the other way
LogsWithDebugLoggingFlipped ==
    RunTargetOp(ran[1], ast0, 0,
                [options EXCEPT !.debugLogging = ~@]).logs

\* C24: onLog is called with level 'debug' only if options.debugLogging is
\* true; the info messages (start, the summaries of the steps, completion)
\* are the same whatever debugLogging is; the start message is the first and
\* the completion message the last of the run.
C24_DebugOnlyWhenAsked ==
    (Returned /\ ran # <<>>) =>
        /\ (\E i \in 1..Len(logs) : logs[i].level = "debug") =>
               options.debugLogging = TRUE
        /\ InfoLogs = InfoOf(LogsWithDebugLoggingFlipped)
        /\ Len(logs) >= 2
        /\ logs[1] = LogEntry("info", "Starting deobfuscation", 0)
        /\ logs[Len(logs)] = LogEntry("info", "Completed", changes)
        /\ \A i \in 2..(Len(logs) - 1) :
               logs[i].msg \notin {"Starting deobfuscation", "Completed"}

\* a run without debugLogging of a tree in which the simplifier has member
\* expressions to trace: the start, six summaries and the completion
C24_Witness ==
    /\ Returned
    /\ ran # <<>>
    /\ options.debugLogging = FALSE
    /\ ast0.members > 0
    /\ Len(logs) = 8
    /\ \E i \in 1..Len(LogsWithDebugLoggingFlipped) :
          LogsWithDebugLoggingFlipped[i].level = "debug"

\* ---------------------------------------------------------------------------
\* The loop of the dead-code pass
\* ---------------------------------------------------------------------------

\* programs of function declarations and of declarators with a function, a
\* number or a call as initializer, A in the program's or in a function's
\* scope, with references from statements and from the declaration of B
LoopBindingMaps ==
    { bindings \in BindingMaps :
        /\ bindings["A"] \in
               { Binding("FunctionDeclaration", NoInitializer, "program"),
                 Binding("VariableDeclarator", FunctionExpr, "function"),
                 Binding("VariableDeclarator", NumericLiteralExpr, "program"),
                 Binding("VariableDeclarator", CallExpr, "program") }
        /\ bindings["B"] # NoBinding }

LoopReferenceSets ==
    SubsetsUpTo({ref \in PossibleReferences :
                    ~ref.write /\ ref.from \in {"B", "top"}},
                MaxReferences)

LoopPrograms ==
    { program \in { DeadCodeProgram(bindings, references, 0) :
                        bindings \in LoopBindingMaps,
                        references \in LoopReferenceSets } :
        WellFormedReferences(program.bindings, program.references) }

InitDeadCodeLoop ==
    /\ targets = <<>>
    /\ defaultTargetId = Null
    /\ Idle
    /\ node \in LoopPrograms
    /\ visit = NoVisit

\* every turn of the loop and the cleanup are taken in the end: run is a
\* sequential function
SpecDeadCodeFair ==
    InitDeadCodeLoop /\ [][NextDeadCode]_vars /\ WF_vars(NextDeadCode)

\* run(ast, state, options) has returned
DeadCodeRunReturned ==
    /\ DeadCodeAtWork
    /\ visit.version = "run"
    /\ visit.returned

\* the references and constant violations of the binding that are in the
\* tree as the pass has left it
LiveReferences(name) ==
    {ref \in TreeReferences(node, visit.present) : ref.to = name}

\* a function declaration, or a variable declarator without an initializer or
\* with a pure one
RemovableDeclaration(binding) ==
    \/ binding.decl = "FunctionDeclaration"
    \/ /\ binding.decl = "VariableDeclarator"
       /\ (binding.init.type = "none" \/ IsPure(binding.init))

\* no binding that is left has a removable declaration and no live reference
AtFixedPoint ==
    \A name \in visit.present :
        ~(LiveReferences(name) = {} /\ RemovableDeclaration(node.bindings[name]))

\* A is referenced from the declaration of B and from nowhere else, B is not
\* referenced, and both declarations are removable
ChainOfAandB ==
    /\ RemovableDeclaration(node.bindings["A"])
    /\ RemovableDeclaration(node.bindings["B"])
    /\ \E ref \in node.references : ref.to = "A"
    /\ \A ref \in node.references :
          /\ ref.to = "A" => ref.from = "B"
          /\ ref.to # "B"

\* a turn of the loop that has removed a binding is followed by another turn,
\* and one that has removed none by the return
FurtherPassAfterRemoval ==
    (DeadCodeAtWork /\ visit.version = "run" /\ ~visit.returned) =>
        /\ visit.changed <=> (Len(visit'.removedBindings)
                                  > Len(visit.removedBindings)
                              \/ visit'.passCount = visit.passCount + 1)
        /\ visit.changed => /\ visit'.passCount = visit.passCount + 1
                            /\ ~visit'.returned
        /\ ~visit.changed => /\ visit'.returned
                             /\ visit'.present = visit.present

FixedPointOnReturn ==
    DeadCodeRunReturned =>
        /\ AtFixedPoint
        /\ visit.passCount <= Cardinality(NameSet) + 1
        /\ ChainOfAandB => {"A", "B"} \cap visit.present = {}

MaxItems == 2

NullValue == Value("null", 0, 0, "", "")

\* Object.create(null): an object without toString and valueOf
NullPrototypeObject == Value("object", 0, 0, "", "null-prototype")

\* String(item) throws a TypeError: the item cannot be converted to a
\* primitive value
StringThrows(item) == item = NullPrototypeObject

\* String(item)
String(item) ==
    CASE item.type = "string" -> item.str
      [] item.type = "number" -> ToString(item.num)
      [] item.type = "boolean" -> IF item.num = 1 THEN "true" ELSE "false"
      [] item.type = "null" -> "null"
      [] item.type = "undefined" -> "undefined"
      [] item.type = "proxy" -> ""
      [] OTHER -> "[object Object]"

\* what executeInSandbox does with the generated code of an initializer: it
\* throws, returns a value that is no array, or returns an array of items
Outcome(kind, value, items) ==
    [kind |-> kind, value |-> value, items |-> items]

NoOutcome == Outcome("none", UndefinedValue, <<>>)

\* an initializer: its type, the type of the callee of a call, whether one of
\* the arguments of the call is a string literal, the elements of an array
\* expression, and what its evaluation comes to
Initializer(type, callee, payload, elements, outcome) ==
    [type |-> type, callee |-> callee, payload |-> payload,
     elements |-> elements, outcome |-> outcome]

\* t.arrayExpression(result.map((item) => t.stringLiteral(String(item))))
StaticArray(result) ==
    Initializer("ArrayExpression", "", FALSE,
                [i \in 1..Len(result) |->
                    [type |-> "StringLiteral", value |-> String(result[i])]],
                NoOutcome)

VariableDeclarator(id, init) == [id |-> id, init |-> init]

\* the state of the traversal: the declarators, this.changes, the declarators
\* the handler has been called on, and whether an exception has left the
\* transform
ExtractorState(body, n, visited, thrown) ==
    [kind |-> "extractor", body |-> body, changes |-> n, visited |-> visited,
     thrown |-> thrown]

\* an exception is thrown inside the try block: by the evaluation, or by
\* String(item) in result.map, before the initializer is assigned
ThrowsInTry(outcome) ==
    \/ outcome.kind = "throw"
    \/ /\ outcome.kind = "array"
       /\ \E j \in 1..Len(outcome.items) : StringThrows(outcome.items[j])

\* the try block without its catch
ExecuteUncaught(st, i) ==
    LET outcome == st.body[i].init.outcome IN
    CASE ThrowsInTry(outcome) -> [st EXCEPT !.thrown = TRUE]
      [] outcome.kind = "array" ->
             [st EXCEPT !.body[i].init = StaticArray(outcome.items),
                        !.changes = @ + 1]
      [] OTHER -> st

\* try { ... executeInSandbox ... } catch (error) { ... }
Execute(st, i) ==
    LET outcome == st.body[i].init.outcome IN
    CASE ThrowsInTry(outcome) -> st
      [] outcome.kind = "array" ->
             [st EXCEPT !.body[i].init = StaticArray(outcome.items),
                        !.changes = @ + 1]
      [] OTHER -> st

\* VariableDeclarator(path), on the i-th declarator
VisitVariableDeclarator(st, i) ==
    LET d == st.body[i]
        reached == [st EXCEPT !.visited = @ \cup {i}]
    IN  IF d.id # "Identifier" THEN reached
        ELSE IF d.init.type = "none" THEN reached
        ELSE IF d.init.type # "CallExpression" THEN reached
        ELSE IF d.init.callee # "FunctionExpression" THEN reached
        ELSE IF ~d.init.payload THEN reached
        ELSE Execute(reached, i)

RECURSIVE ExtractorTraverseFrom(_, _)
\* the traversal; an exception that leaves a handler ends it
ExtractorTraverseFrom(st, i) ==
    IF i > Len(st.body) \/ st.thrown
    THEN st
    ELSE ExtractorTraverseFrom(VisitVariableDeclarator(st, i), i + 1)

StringArrayExtractorTraverse(program) ==
    ExtractorTraverseFrom(ExtractorState(program.body, 0, {}, FALSE), 1)

\* the items of the arrays: 'a', 10, null, undefined, true, {}, a permissive
\* proxy and Object.create(null)
Items ==
    { StringValue("a"), NumberValue(10), NullValue, UndefinedValue,
      BooleanValue(TRUE), ObjectLiteral, PermissiveProxy(1),
      NullPrototypeObject }

\* an IIFE with a string argument
MatchedInitializer(outcome) ==
    Initializer("CallExpression", "FunctionExpression", TRUE, <<>>, outcome)

Outcomes ==
    { Outcome("throw", UndefinedValue, <<>>),
      Outcome("value", UndefinedValue, <<>>),
      Outcome("value", StringValue("a"), <<>>),
      Outcome("value", PermissiveProxy(1), <<>>) }
    \cup {Outcome("array", UndefinedValue, items) :
             items \in SeqsUpTo(Items, MaxItems)}

\* the declarators the handler returns on before it evaluates anything
OtherDeclarators ==
    LET array == Outcome("array", UndefinedValue, <<StringValue("a")>>) IN
    { VariableDeclarator("ObjectPattern", MatchedInitializer(array)),
      VariableDeclarator("Identifier",
          Initializer("none", "", FALSE, <<>>, NoOutcome)),
      VariableDeclarator("Identifier",
          Initializer("NumericLiteral", "", FALSE, <<>>, NoOutcome)),
      VariableDeclarator("Identifier",
          Initializer("CallExpression", "Identifier", TRUE, <<>>, array)),
      VariableDeclarator("Identifier",
          Initializer("CallExpression", "FunctionExpression", FALSE, <<>>,
                      array)) }

FirstDeclarators ==
    {VariableDeclarator("Identifier", MatchedInitializer(outcome)) :
        outcome \in Outcomes}
    \cup OtherDeclarators

\* the declarator after the first: it evaluates to ['a', 10], to nothing, or
\* is none the handler evaluates
SecondDeclarators ==
    { VariableDeclarator("Identifier",
          MatchedInitializer(Outcome("array", UndefinedValue,
                                     <<StringValue("a"), NumberValue(10)>>))),
      VariableDeclarator("Identifier",
          MatchedInitializer(Outcome("throw", UndefinedValue, <<>>))),
      VariableDeclarator("Identifier",
          Initializer("none", "", FALSE, <<>>, NoOutcome)) }

ExtractorPrograms ==
    { [kind |-> "extractor", body |-> <<first, second>>] :
        first \in FirstDeclarators, second \in SecondDeclarators }

InitExtractor ==
    /\ targets = <<>>
    /\ defaultTargetId = Null
    /\ Idle
    /\ node \in ExtractorPrograms
    /\ visit = NoVisit

\* the traversal of the program
TraverseExtractorProgram ==
    /\ node.kind = "extractor"
    /\ visit = NoVisit
    /\ visit' = StringArrayExtractorTraverse(node)
    /\ UNCHANGED <<registryVars, pc, ret, detections, runVars, node>>

NextExtractor == TraverseExtractorProgram

SpecExtractor == InitExtractor /\ [][NextExtractor]_vars

\* the declarator has an identifier as id and an IIFE with a string literal
\* among its arguments as initializer
MatchedIIFE(d) ==
    /\ d.id = "Identifier"
    /\ d.init.type = "CallExpression"
    /\ d.init.callee = "FunctionExpression"
    /\ d.init.payload

\* the declarators whose evaluation gives an array
ArrayResults ==
    {i \in 1..Len(node.body) :
        MatchedIIFE(node.body[i]) /\ node.body[i].init.outcome.kind = "array"}

\* the declarators whose evaluation gives an array every item of which
\* String converts
ExtractedArrays ==
    {i \in ArrayResults : ~ThrowsInTry(node.body[i].init.outcome)}

\* the i-th initializer is the array expression of the string literals
\* String(result[1]), ..., String(result[n])
BecameStringLiterals(i) ==
    LET result == node.body[i].init.outcome.items
        init == visit.body[i].init
    IN  /\ visit.body[i].id = node.body[i].id
        /\ init.type = "ArrayExpression"
        /\ Len(init.elements) = Len(result)
        /\ \A j \in 1..Len(result) :
              /\ init.elements[j].type = "StringLiteral"
              /\ ~StringThrows(result[j])
              /\ init.elements[j].value = String(result[j])

DefaultIsRegistered ==
    \/ GetDefault(targets, defaultTargetId) = Undefined
    \/ /\ Has(targets, defaultTargetId)
       /\ GetDefault(targets, defaultTargetId) = Get(targets, defaultTargetId)

\* register(t) with the id that was set as default: getDefault() returns t
RegisteredUnderDefaultId(t) ==
    (Register(t) /\ t.id = defaultTargetId) =>
        GetDefault(targets', defaultTargetId') = t

\* C29: after any sequence of register, unregister and setDefault calls,
\* getDefault() returns nothing or a target that is registered at that
\* moment, the one get(id) returns, never one that has been unregistered; and
\* a target registered under the id that was set as default is the default
\* again without another setDefault call.
C29_DefaultFollowsRegistration ==
    /\ []DefaultIsRegistered
    /\ [][\A t \in AllTargets : RegisteredUnderDefaultId(t)]_vars

\* the same for the ids that are not the empty string
NonEmptyDefaultFollowsRegistration ==
    /\ []DefaultIsRegistered
    /\ [][\A t \in AllTargets :
             t.id # "" => RegisteredUnderDefaultId(t)]_vars

\* ---------------------------------------------------------------------------
\* The built-in registry under every target option and threshold
\* ---------------------------------------------------------------------------

\* the thresholds: none given, 0, the confidence a string array gives, the
\* next one above it, and 1
BuiltinThresholds ==
    {NoThreshold}
    \cup {Threshold(v) : v \in {0, StringArrayConfidence,
                               StringArrayConfidence + 1, MaxConfidence}}

\* the trees of both kinds, by what detection and the first steps of the two
\* pipelines look for
BuiltinTrees ==
    {tr \in OioInputs \cup AbbaInputs :
        /\ tr.objProps = 0 /\ tr.wrappers = 0 /\ tr.cleanup = 0
        /\ tr.extras = 0 /\ tr.members = 0 /\ tr.modules = 0}

CallBuiltin ==
    \E ta \in TargetOptions, th \in BuiltinThresholds, tr \in BuiltinTrees :
        Call(Options(ta, th, TRUE, FALSE), tr)

NextBuiltin == CallBuiltin \/ Resolve \/ RunTarget \/ Return

SpecBuiltin == InitBuiltin /\ [][NextBuiltin]_vars

NamedAbba == options.target = OptTarget("string", "abba")

\* the detection list of the tree runDeobfuscation was called with
DetectionList == Detect(targets, ast0).results

\* C30: with the built-in registry (obfuscator.io and abba registered,
\* obfuscator.io the default, abba's detect returning confidence 0), auto
\* mode resolves to obfuscator.io for every tree and every threshold:
\* obfuscator.io's confidence is 0 or 0.5, abba is never in the detection
\* list, and the abba target runs only when the target option names it.
C30_AutoIsObfuscatorIO ==
    Resolved =>
        /\ OioDetect(ast0) \in {0, StringArrayConfidence}
        /\ \A i \in 1..Len(DetectionList) :
              DetectionList[i].target # abbaTarget
        /\ AutoMode =>
              /\ resolution.outcome = "target"
              /\ resolution.target = obfuscatorIOTarget
        /\ resolution.target = abbaTarget => NamedAbba
        /\ \A i \in 1..Len(ran) : ran[i] = abbaTarget => NamedAbba

\* auto mode with threshold 0 on a tree that holds Abba's string array and
\* none of obfuscator.io's: the detection list is empty and obfuscator.io
\* has run
C30_Witness ==
    /\ Returned
    /\ options.target = Auto
    /\ options.threshold = Threshold(0)
    /\ ast0.arr = "iife"
    /\ ~FindStringArray(ast0)
    /\ DetectionList = <<>>
    /\ ran = <<obfuscatorIOTarget>>

\* the abba target has run, named by its id
AbbaRanByName ==
    /\ Returned
    /\ NamedAbba
    /\ ran = <<abbaTarget>>

====
